---- MODULE Spec2Model ----
(***************************************************************************)
(* vue-doctor: the diagnostic pipeline (ignore filtering, glob matching,   *)
(* health score), the lint phase, diagnose and scan, and the tree walker   *)
(* of the rules, as state machines.                                        *)
(*                                                                         *)
(* Strings that the code inspects character by character (file paths,      *)
(* glob patterns, regular-expression sources) are sequences of one-         *)
(* character strings; strings that are only compared (rule names, plugin   *)
(* names, severities, labels) are TLA+ strings.                            *)
(*                                                                         *)
(* Numbers with a fractional part (the 1.5 warning weight) are kept in     *)
(* half units: a name ending in 2 holds twice the value of the code.       *)
(***************************************************************************)
EXTENDS Integers, Sequences, FiniteSets, TLC

VARIABLES
    diagnostics,   \* Diagnostic[] handed to the pipeline
    scoreResult,   \* <<>> or <<ScoreResult>>: what calculateScore returned
    config,        \* VueDoctorConfig used by filterIgnoredDiagnostics
    filtered,      \* <<>> or <<Diagnostic[]>>: what filterIgnoredDiagnostics returned
    pc,            \* position of the asynchronous calculateScore
    response,      \* outcome of the fetch of the asynchronous calculateScore
    filePath,      \* path given to matchesGlobPattern
    pattern,       \* pattern given to matchesGlobPattern
    matched,       \* <<>> or <<BOOLEAN>>: what matchesGlobPattern returned
    files,         \* the files runEslint lints, in the order of collectVueFiles
    framework,     \* the framework of the linted project
    ruleConfig,    \* <<>> or <<rules>>: what buildRuleConfig returned
    fileIndex,     \* number of files the loop of runEslint has gone through
    allDiagnostics,\* the list runEslint is building
    lintResult,    \* <<>> or <<Diagnostic[]>>: what runEslint returned
    ruleState,     \* closure variables of the last require-emits-declaration instance
    project,       \* the project diagnose or scan is called on
    options,       \* the options diagnose or scan is called with
    userConfig,    \* <<>> or <<VueDoctorConfig>>: what loadConfig returned
    toggles,       \* <<>> or <<[lint, deadCode]>>: effectiveLint and effectiveDeadCode
    lintPhase,     \* the promise of the lint phase
    deadCodePhase, \* the promise of the dead-code phase
    ended,         \* <<>> or <<what diagnose or scan ended with>>
    ast,           \* the tree walkAst is called on
    visits,        \* <<>> or <<the nodes the visitor was called with, in order>>
    argument,      \* what a rule or a helper is applied to
    returned,      \* <<>> or <<what the rule reported or the helper returned>>
    traversal      \* the position of a rule in the tree it is traversing

lintVars == <<files, framework, ruleConfig, fileIndex, allDiagnostics, lintResult, ruleState>>
diagVars == <<project, options, userConfig, toggles, lintPhase, deadCodePhase, ended>>
walkVars == <<ast, visits>>
unitVars == <<argument, returned, traversal>>

vars == <<diagnostics, scoreResult, config, filtered, pc, response, filePath, pattern, matched,
          lintVars, diagVars, walkVars, unitVars>>

(***************************************************************************)
(* Bounds of the model.                                                    *)
(***************************************************************************)
MaxScored == 30        \* longest diagnostic list that is scored
MaxRuns == 2           \* most runs of equal severity in a scored list
MaxPatternLen == 3     \* longest enumerated glob pattern
MaxPathLen == 4        \* longest enumerated file path
MaxFiltered == 3       \* longest diagnostic list that is filtered

(***************************************************************************)
(* Constants of the program.                                               *)
(***************************************************************************)
SCORE_GOOD_THRESHOLD == 75
SCORE_OK_THRESHOLD == 50
PERFECT_SCORE == 100

Severities == {"error", "warning"}

None == <<>>
Some(x) == <<x>>

Min(a, b) == IF a < b THEN a ELSE b
Max(a, b) == IF a > b THEN a ELSE b

\* "/test/file.vue"
TestFilePath == <<"/","t","e","s","t","/","f","i","l","e",".","v","u","e">>

\* createDiagnostic of the score tests: a diagnostic of the given severity
createDiagnostic(severity) ==
    [filePath |-> TestFilePath, plugin |-> "vue-doctor", rule |-> "test-rule",
     severity |-> severity]

(***************************************************************************)
(* calculateScore                                                          *)
(***************************************************************************)
\* Math.round of a number given in half units, the result in half units too:
\* floor(x + 0.5), so that x.5 rounds up
MathRound2(x2) == 2 * ((x2 + 1) \div 2)

\* diagnostics.filter((d) => d.severity === severity).length
CountSeverity(ds, severity) ==
    Len(SelectSeq(ds, LAMBDA d : d.severity = severity))

\* the label of a score given in half units
ScoreLabel(score2) ==
    IF score2 >= 2 * SCORE_GOOD_THRESHOLD THEN "Good"
    ELSE IF score2 >= 2 * SCORE_OK_THRESHOLD THEN "OK"
    ELSE "Critical"

Perfect == [score2 |-> 2 * PERFECT_SCORE, label |-> "Perfect"]

\* Mutant: the penalty is not capped, and the score is neither rounded nor
\* clamped at 0.
calculateScore_Unclamped(ds) ==
    IF Len(ds) = 0 THEN Perfect
    ELSE LET penalty2 == CountSeverity(ds, "error") * 8 + CountSeverity(ds, "warning") * 3
             score2 == 2 * PERFECT_SCORE - penalty2
         IN  [score2 |-> score2, label |-> ScoreLabel(score2)]

\* Mutant: Math.floor instead of Math.round.
calculateScore_Floor(ds) ==
    IF Len(ds) = 0 THEN Perfect
    ELSE LET penalty2 == Min(CountSeverity(ds, "error") * 8 + CountSeverity(ds, "warning") * 3,
                             2 * 100)
             score2 == Max(0, 2 * ((2 * PERFECT_SCORE - penalty2) \div 2))
         IN  [score2 |-> score2, label |-> ScoreLabel(score2)]

\* Mutant: the label thresholds are compared with > instead of >=.
calculateScore_StrictThresholds(ds) ==
    IF Len(ds) = 0 THEN Perfect
    ELSE LET penalty2 == Min(CountSeverity(ds, "error") * 8 + CountSeverity(ds, "warning") * 3,
                             2 * 100)
             score2 == Max(0, MathRound2(2 * PERFECT_SCORE - penalty2))
         IN  [score2 |-> score2,
              label |-> IF score2 > 2 * SCORE_GOOD_THRESHOLD THEN "Good"
                        ELSE IF score2 > 2 * SCORE_OK_THRESHOLD THEN "OK"
                        ELSE "Critical"]

\* Mutant: a sign slip, the warnings are subtracted from the penalty.
calculateScore_SignSlip(ds) ==
    IF Len(ds) = 0 THEN Perfect
    ELSE LET penalty2 == Min(CountSeverity(ds, "error") * 8 - CountSeverity(ds, "warning") * 3,
                             2 * 100)
             score2 == Max(0, MathRound2(2 * PERFECT_SCORE - penalty2))
         IN  [score2 |-> score2, label |-> ScoreLabel(score2)]

\* src/unnamed/part_005: the synchronous, local calculateScore
calculateScore(ds) ==
    IF Len(ds) = 0 THEN Perfect
    ELSE LET errorCount == CountSeverity(ds, "error")
             warningCount == CountSeverity(ds, "warning")
             \* Math.min(errorCount * 4 + warningCount * 1.5, 100)
             penalty2 == Min(errorCount * 8 + warningCount * 3, 2 * 100)
             \* Math.max(0, Math.round(PERFECT_SCORE - penalty))
             score2 == Max(0, MathRound2(2 * PERFECT_SCORE - penalty2))
         IN  [score2 |-> score2, label |-> ScoreLabel(score2)]

(***************************************************************************)
(* matchesGlobPattern: the pattern is rewritten into the source of a       *)
(* regular expression, which is compiled and tested against the path.      *)
(***************************************************************************)
\* "/src/test.vue"
Path_src_test == <<"/", "s", "r", "c", "/", "t", "e", "s", "t", ".", "v", "u", "e">>
\* "/src/components/test.vue"
Path_src_components_test == <<"/", "s", "r", "c", "/", "c", "o", "m", "p", "o", "n", "e", "n", "t", "s", "/", "t", "e", "s", "t", ".", "v", "u", "e">>
\* "/src/components/Bad.vue"
Path_components_Bad == <<"/", "s", "r", "c", "/", "c", "o", "m", "p", "o", "n", "e", "n", "t", "s", "/", "B", "a", "d", ".", "v", "u", "e">>
\* "/src/views/Bad.vue"
Path_views_Bad == <<"/", "s", "r", "c", "/", "v", "i", "e", "w", "s", "/", "B", "a", "d", ".", "v", "u", "e">>
\* "/src/components/Good.vue"
Path_components_Good == <<"/", "s", "r", "c", "/", "c", "o", "m", "p", "o", "n", "e", "n", "t", "s", "/", "G", "o", "o", "d", ".", "v", "u", "e">>
\* "src/a.vue"
Path_src_a == <<"s", "r", "c", "/", "a", ".", "v", "u", "e">>
\* "src/ab.vue"
Path_src_ab == <<"s", "r", "c", "/", "a", "b", ".", "v", "u", "e">>
\* "src/test.vue"
Path_rel_test == <<"s", "r", "c", "/", "t", "e", "s", "t", ".", "v", "u", "e">>
\* "src/foo/test.vue"
Path_rel_foo_test == <<"s", "r", "c", "/", "f", "o", "o", "/", "t", "e", "s", "t", ".", "v", "u", "e">>
\* "src/foo/bar/test.vue"
Path_rel_foo_bar_test == <<"s", "r", "c", "/", "f", "o", "o", "/", "b", "a", "r", "/", "t", "e", "s", "t", ".", "v", "u", "e">>
\* "Button.vue"
Path_Button == <<"B", "u", "t", "t", "o", "n", ".", "v", "u", "e">>
\* "deep/nested/path/file.vue"
Path_deep == <<"d", "e", "e", "p", "/", "n", "e", "s", "t", "e", "d", "/", "p", "a", "t", "h", "/", "f", "i", "l", "e", ".", "v", "u", "e">>
\* "/src/*.vue"
Pattern_src_star_vue == <<"/", "s", "r", "c", "/", "*", ".", "v", "u", "e">>
\* "**/Bad.vue"
Pattern_dstar_Bad == <<"*", "*", "/", "B", "a", "d", ".", "v", "u", "e">>
\* "src/?.vue"
Pattern_question == <<"s", "r", "c", "/", "?", ".", "v", "u", "e">>
\* "src/**/test.vue"
Pattern_src_dstar_test == <<"s", "r", "c", "/", "*", "*", "/", "t", "e", "s", "t", ".", "v", "u", "e">>
\* "**/*.vue"
Pattern_dstar_star_vue == <<"*", "*", "/", "*", ".", "v", "u", "e">>

ExamplePaths ==
    {Path_src_test, Path_src_components_test, Path_components_Bad, Path_views_Bad,
     Path_components_Good, Path_src_a, Path_src_ab, Path_rel_test,
     Path_rel_foo_test, Path_rel_foo_bar_test, Path_Button, Path_deep}

ExamplePatterns ==
    {Pattern_src_star_vue, Pattern_dstar_Bad, Pattern_question, Pattern_src_dstar_test,
     Pattern_dstar_star_vue}

\* the characters of the class /[.+^${}()|[\]\\]/
RegExpSpecials == {".", "+", "^", "$", "{", "}", "(", ")", "|", "[", "]", "\\"}

\* characters that the regular expression . does not match
LineTerminators == {"\n", "\r"}

StartsWith(s, prefix) ==
    Len(s) >= Len(prefix) /\ SubSeq(s, 1, Len(prefix)) = prefix

Drop(s, n) == SubSeq(s, n + 1, Len(s))

\* pattern.replace(/[.+^${}()|[\]\\]/g, "\\$&")
RECURSIVE EscapeSpecials(_)
EscapeSpecials(s) ==
    IF s = <<>> THEN <<>>
    ELSE (IF Head(s) \in RegExpSpecials THEN <<"\\", Head(s)>> ELSE <<Head(s)>>)
         \o EscapeSpecials(Tail(s))

\* s.replace(/from/g, to) for a literal from: leftmost matches, not overlapping
RECURSIVE ReplaceAll(_, _, _)
ReplaceAll(s, from, to) ==
    IF s = <<>> THEN <<>>
    ELSE IF StartsWith(s, from) THEN to \o ReplaceAll(Drop(s, Len(from)), from, to)
    ELSE <<Head(s)>> \o ReplaceAll(Tail(s), from, to)

DOUBLE_STAR == <<"D", "O", "U", "B", "L", "E", "_", "S", "T", "A", "R">>

\* Mutant: a single star becomes .* like the double star.
GlobToRegExpSource_StarAny(globPattern) ==
    ReplaceAll(EscapeSpecials(globPattern), <<"*">>, <<".", "*">>)

\* the escapedPattern of matchesGlobPattern
GlobToRegExpSource(globPattern) ==
    LET escaped == EscapeSpecials(globPattern)
        marked == ReplaceAll(escaped, <<"*", "*">>, DOUBLE_STAR)
        single == ReplaceAll(marked, <<"*">>, <<"[", "^", "/", "]", "*">>)
    IN  ReplaceAll(single, DOUBLE_STAR, <<".", "*">>)

(***************************************************************************)
(* new RegExp(source): the sources that GlobToRegExpSource produces hold   *)
(* escaped characters, the class [^/], the dot, the quantifiers * and ?    *)
(* (each possibly followed by the ? that makes it lazy) and literals.      *)
(***************************************************************************)
Literal(c) == [kind |-> "char", ch |-> c]
AnyChar == [kind |-> "any", ch |-> ""]
NotSlash == [kind |-> "notSlash", ch |-> ""]

\* the atom at the head of a source; len 0 when a quantifier stands there
\* (SyntaxError: nothing to repeat) or a backslash ends the source
ParseAtom(src) ==
    IF Head(src) = "\\"
    THEN IF Len(src) >= 2 THEN [atom |-> Literal(src[2]), len |-> 2]
         ELSE [atom |-> AnyChar, len |-> 0]
    ELSE IF StartsWith(src, <<"[", "^", "/", "]">>) THEN [atom |-> NotSlash, len |-> 4]
    ELSE IF Head(src) = "." THEN [atom |-> AnyChar, len |-> 1]
    ELSE IF Head(src) \in {"*", "?"} THEN [atom |-> AnyChar, len |-> 0]
    ELSE [atom |-> Literal(Head(src)), len |-> 1]

\* the quantifier at the head of a source, with its lazy mark
ParseQuantifier(src) ==
    LET lazy(rest) == IF rest # <<>> /\ Head(rest) = "?" THEN 1 ELSE 0
    IN  IF src # <<>> /\ Head(src) = "*" THEN [quant |-> "star", len |-> 1 + lazy(Tail(src))]
        ELSE IF src # <<>> /\ Head(src) = "?"
             THEN [quant |-> "opt", len |-> 1 + lazy(Tail(src))]
        ELSE [quant |-> "one", len |-> 0]

\* the terms of a source, and whether the source compiles
RECURSIVE RegExpParse(_)
RegExpParse(src) ==
    IF src = <<>> THEN [ok |-> TRUE, terms |-> <<>>]
    ELSE LET a == ParseAtom(src)
         IN  IF a.len = 0 THEN [ok |-> FALSE, terms |-> <<>>]
             ELSE LET q == ParseQuantifier(Drop(src, a.len))
                      rest == RegExpParse(Drop(src, a.len + q.len))
                  IN  [ok |-> rest.ok,
                       terms |-> <<[atom |-> a.atom, quant |-> q.quant]>> \o rest.terms]

AtomMatches(atom, c) ==
    CASE atom.kind = "char" -> c = atom.ch
      [] atom.kind = "any" -> c \notin LineTerminators
      [] atom.kind = "notSlash" -> c # "/"

\* ^terms$ matches the whole of s
RECURSIVE TermsMatch(_, _)
TermsMatch(terms, s) ==
    IF terms = <<>> THEN s = <<>>
    ELSE LET t == Head(terms)
             one == s # <<>> /\ AtomMatches(t.atom, Head(s))
         IN  CASE t.quant = "one" -> one /\ TermsMatch(Tail(terms), Tail(s))
               [] t.quant = "opt" ->
                      \/ TermsMatch(Tail(terms), s)
                      \/ one /\ TermsMatch(Tail(terms), Tail(s))
               [] t.quant = "star" ->
                      \/ TermsMatch(Tail(terms), s)
                      \/ one /\ TermsMatch(terms, Tail(s))

\* new RegExp(`^${escapedPattern}$`) does not throw
RegExpCompiles(globPattern) == RegExpParse(GlobToRegExpSource(globPattern)).ok

\* new RegExp(`^${escapedPattern}$`).test(filePath), for a pattern that compiles
matchesGlobPattern(path, globPattern) ==
    TermsMatch(RegExpParse(GlobToRegExpSource(globPattern)).terms, path)

(***************************************************************************)
(* filterIgnoredDiagnostics                                                *)
(***************************************************************************)
\* "/src/b.vue"
Path_src_b_abs == <<"/", "s", "r", "c", "/", "b", ".", "v", "u", "e">>
\* "/src/b.vue"
Pattern_src_b == <<"/", "s", "r", "c", "/", "b", ".", "v", "u", "e">>
\* "/src/components/*"
Pattern_components_star == <<"/", "s", "r", "c", "/", "c", "o", "m", "p", "o", "n", "e", "n", "t", "s", "/", "*">>

\* config.ignore?.rules ?? []
IgnoredRules(cfg) ==
    IF cfg.ignore = None THEN <<>>
    ELSE IF cfg.ignore[1].rules = None THEN <<>>
    ELSE cfg.ignore[1].rules[1]

\* config.ignore?.files ?? []
IgnoredFiles(cfg) ==
    IF cfg.ignore = None THEN <<>>
    ELSE IF cfg.ignore[1].files = None THEN <<>>
    ELSE cfg.ignore[1].files[1]

\* Mutant: only the full rule id is compared.
isRuleIgnored_FullOnly(diagnostic, ignoredRules) ==
    LET fullRule == diagnostic.plugin \o "/" \o diagnostic.rule
    IN  \E i \in DOMAIN ignoredRules : ignoredRules[i] = fullRule

isRuleIgnored(diagnostic, ignoredRules) ==
    LET fullRule == diagnostic.plugin \o "/" \o diagnostic.rule
    IN  \E i \in DOMAIN ignoredRules :
            ignoredRules[i] = fullRule \/ ignoredRules[i] = diagnostic.rule

isFileIgnored(diagnostic, ignoredFiles) ==
    \E i \in DOMAIN ignoredFiles : matchesGlobPattern(diagnostic.filePath, ignoredFiles[i])

\* a loop that removes the ignored diagnostics in place while it counts up:
\* the diagnostic that follows a removed one is skipped
RECURSIVE SpliceLoop(_, _, _)
SpliceLoop(ds, cfg, i) ==
    IF i > Len(ds) THEN ds
    ELSE IF \/ isRuleIgnored(ds[i], IgnoredRules(cfg))
            \/ isFileIgnored(ds[i], IgnoredFiles(cfg))
         THEN SpliceLoop(SubSeq(ds, 1, i - 1) \o Drop(ds, i), cfg, i + 1)
    ELSE SpliceLoop(ds, cfg, i + 1)

\* Mutant: the ignored diagnostics are removed in place by a counting loop.
filterIgnoredDiagnostics_Splice(ds, cfg) == SpliceLoop(ds, cfg, 1)

filterIgnoredDiagnostics(ds, cfg) ==
    LET ignoredRules == IgnoredRules(cfg)
        ignoredFiles == IgnoredFiles(cfg)
    IN  IF Len(ignoredRules) = 0 /\ Len(ignoredFiles) = 0 THEN ds
        ELSE SelectSeq(ds, LAMBDA diagnostic :
                 /\ ~isRuleIgnored(diagnostic, ignoredRules)
                 /\ ~isFileIgnored(diagnostic, ignoredFiles))

(***************************************************************************)
(* The scoring specification: a diagnostic list grows one diagnostic at a  *)
(* time and is scored.                                                     *)
(***************************************************************************)
EmptyConfig == [ignore |-> None]

\* the variables of the operations that a specification leaves alone
FilterIdle == config = EmptyConfig /\ filtered = None
RemoteIdle == pc = "idle" /\ response = "none"
GlobIdle == filePath = <<>> /\ pattern = <<>> /\ matched = None
LintIdle ==
    /\ files = <<>> /\ framework = "unknown" /\ ruleConfig = None /\ fileIndex = 0
    /\ allDiagnostics = <<>> /\ lintResult = None
    /\ ruleState = [hasDefineEmits |-> FALSE, emitCalls |-> <<>>]
DiagIdle ==
    /\ project = None /\ options = None /\ userConfig = None /\ toggles = None
    /\ lintPhase = None /\ deadCodePhase = None /\ ended = None
WalkIdle == ast = None /\ visits = None
UnitIdle == argument = None /\ returned = None /\ traversal = None

\* number of maximal runs of equal severity in a list
NumRuns(ds) ==
    IF Len(ds) = 0 THEN 0
    ELSE 1 + Cardinality({i \in 1..(Len(ds) - 1) : ds[i].severity # ds[i + 1].severity})

InitScore ==
    /\ diagnostics = <<>>
    /\ scoreResult = None
    /\ FilterIdle /\ RemoteIdle /\ GlobIdle /\ LintIdle /\ DiagIdle /\ WalkIdle /\ UnitIdle

\* one more diagnostic is reported
AddDiagnostic(severity) ==
    /\ pc = "idle"
    /\ Len(diagnostics) < MaxScored
    /\ NumRuns(Append(diagnostics, createDiagnostic(severity))) <= MaxRuns
    /\ diagnostics' = Append(diagnostics, createDiagnostic(severity))
    /\ scoreResult' = None
    /\ UNCHANGED <<config, filtered, pc, response, filePath, pattern, matched, lintVars, diagVars, walkVars, unitVars>>

\* const scoreResult = calculateScore(diagnostics)
Score ==
    /\ scoreResult = None
    /\ scoreResult' = Some(calculateScore(diagnostics))
    /\ UNCHANGED <<diagnostics, config, filtered, pc, response, filePath, pattern, matched, lintVars, diagVars, walkVars, unitVars>>

NextScore ==
    \/ \E severity \in Severities : AddDiagnostic(severity)
    \/ Score

SpecScore == InitScore /\ [][NextScore]_vars

Scored == scoreResult # None
ErrorCount == Cardinality({i \in DOMAIN diagnostics : diagnostics[i].severity = "error"})
WarningCount == Cardinality({i \in DOMAIN diagnostics : diagnostics[i].severity = "warning"})

LocalFormula2(e, w) ==
    LET capped2 == IF 8 * e + 3 * w > 200 THEN 200 ELSE 8 * e + 3 * w
        rest2 == IF 200 - capped2 < 0 THEN 0 ELSE 200 - capped2
    IN  IF rest2 % 2 = 1 THEN rest2 + 1 ELSE rest2

\* C2: with e errors and w warnings the score is
\* round(max(0, 100 - min(4e + 1.5w, 100))), a half rounding up; 1 error
\* gives 96, 4 errors 84, 1 warning 99, 10 warnings 85, 2 errors and 1
\* warning 91, 30 errors 0.
C2_LocalFormula ==
    Scored =>
        /\ scoreResult[1].score2 = LocalFormula2(ErrorCount, WarningCount)
        /\ (ErrorCount = 1 /\ WarningCount = 0) => scoreResult[1].score2 = 2 * 96
        /\ (ErrorCount = 4 /\ WarningCount = 0) => scoreResult[1].score2 = 2 * 84
        /\ (ErrorCount = 0 /\ WarningCount = 1) => scoreResult[1].score2 = 2 * 99
        /\ (ErrorCount = 0 /\ WarningCount = 10) => scoreResult[1].score2 = 2 * 85
        /\ (ErrorCount = 2 /\ WarningCount = 1) => scoreResult[1].score2 = 2 * 91
        /\ (ErrorCount = 30 /\ WarningCount = 0) => scoreResult[1].score2 = 0

\* C2 witness: 2 errors and 1 warning (a penalty of 9.5) have been scored.
C2_Witness ==
    Scored /\ ErrorCount = 2 /\ WarningCount = 1 /\ scoreResult[1].score2 = 2 * 91

C4_Monotone ==
    Scored =>
        \A severity \in Severities :
            LET more == calculateScore(Append(diagnostics, createDiagnostic(severity)))
            IN  /\ more.score2 <= scoreResult[1].score2
                /\ scoreResult[1].score2 = 0 => more.score2 = 0

\* C4 witness: a list that already scores 0 has been scored.
C4_Witness ==
    Scored /\ scoreResult[1].score2 = 0 /\ WarningCount > 0 /\ ErrorCount > 0

(***************************************************************************)
(* The asynchronous calculateScore: the score is asked of the scoring      *)
(* service, and computed locally when the service does not answer.         *)
(***************************************************************************)
\* the local formula of the asynchronous variant
computeLocalScore(ds) ==
    IF Len(ds) = 0 THEN Perfect
    ELSE LET errorCount == CountSeverity(ds, "error")
             warningCount == CountSeverity(ds, "warning")
             penalty2 == Min(errorCount * 8 + warningCount * 3, 2 * 100)
             score2 == Max(0, MathRound2(2 * PERFECT_SCORE - penalty2))
         IN  [score2 |-> score2, label |-> ScoreLabel(score2)]

\* bodies the scoring service may answer with: the code returns them as they are
RemoteBodies ==
    {[score2 |-> 2 * 87, label |-> "Good"], [score2 |-> 2 * 42, label |-> "Critical"]}

\* outcomes of the request after which the code computes the score locally
FailedResponses == {"rejected", "timeout", "notOk", "badJson"}

\* calculateScore(diagnostics) is called: the POST is sent, the caller awaits
CallCalculateScore ==
    /\ pc = "idle"
    /\ scoreResult = None
    /\ pc' = "fetch"
    /\ response' = "pending"
    /\ UNCHANGED <<diagnostics, scoreResult, config, filtered, filePath, pattern, matched, lintVars, diagVars, walkVars, unitVars>>

\* what the function resolves to once the request has ended with `outcome`
Resolve(outcome, result) ==
    /\ pc = "fetch"
    /\ pc' = "done"
    /\ response' = outcome
    /\ scoreResult' = result
    /\ UNCHANGED <<diagnostics, config, filtered, filePath, pattern, matched, lintVars, diagVars, walkVars, unitVars>>

\* fetch rejects (the network is down): catch { return computeLocalScore(...) }
FetchRejects == Resolve("rejected", Some(computeLocalScore(diagnostics)))

\* AbortSignal.timeout(3000) aborts the request: fetch rejects, the same catch
FetchTimesOut == Resolve("timeout", Some(computeLocalScore(diagnostics)))

\* Mutant: a response that is not OK resolves to null.
ResponseNotOk_Null == Resolve("notOk", None)

\* if (!response.ok) return computeLocalScore(diagnostics)
ResponseNotOk == Resolve("notOk", Some(computeLocalScore(diagnostics)))

\* response.ok, and response.json() rejects: the same catch
ResponseJsonFails == Resolve("badJson", Some(computeLocalScore(diagnostics)))

\* return (await response.json()) as ScoreResult
ResponseOk(body) == Resolve("ok", Some(body))

NextRemote ==
    \/ \E severity \in Severities : AddDiagnostic(severity)
    \/ CallCalculateScore
    \/ FetchRejects
    \/ FetchTimesOut
    \/ ResponseNotOk
    \/ ResponseJsonFails
    \/ \E body \in RemoteBodies : ResponseOk(body)

SpecRemote == InitScore /\ [][NextRemote]_vars

\* C5: whenever the request throws, times out or returns a response that is
\* not OK, calculateScore resolves (it does not fail) to exactly the score
\* and label of the local formula for the same diagnostics.
C5_RemoteFallback ==
    response \in {"rejected", "timeout", "notOk"} =>
        /\ pc = "done"
        /\ scoreResult # None
        /\ scoreResult[1].score2 = LocalFormula2(ErrorCount, WarningCount)
        /\ scoreResult[1].label =
              IF Len(diagnostics) = 0 THEN "Perfect"
              ELSE IF scoreResult[1].score2 >= 2 * 75 THEN "Good"
              ELSE IF scoreResult[1].score2 >= 2 * 50 THEN "OK"
              ELSE "Critical"

\* C5 witness: a response that is not OK led to a local score below 100.
C5_Witness ==
    pc = "done" /\ response = "notOk" /\ scoreResult # None /\ ErrorCount = 3
                /\ WarningCount = 1

(***************************************************************************)
(* The glob specification: matchesGlobPattern is applied to a path and a   *)
(* pattern.                                                                *)
(***************************************************************************)
PatternAlphabet == {"a", ".", "/", "*"}
PathAlphabet == {"a", ".", "/"}

SeqsUpTo(S, n) == UNION {[1..k -> S] : k \in 0..n}

Patterns == {p \in SeqsUpTo(PatternAlphabet, MaxPatternLen) \cup ExamplePatterns :
                RegExpCompiles(p)}
Paths == SeqsUpTo(PathAlphabet, MaxPathLen) \cup ExamplePaths

ScoreIdle == diagnostics = <<>> /\ scoreResult = None

InitGlob ==
    /\ filePath \in Paths
    /\ pattern \in Patterns
    /\ matched = None
    /\ ScoreIdle /\ FilterIdle /\ RemoteIdle /\ LintIdle /\ DiagIdle /\ WalkIdle /\ UnitIdle

\* matchesGlobPattern(diagnostic.filePath, pattern)
TestGlob ==
    /\ matched = None
    /\ matched' = Some(matchesGlobPattern(filePath, pattern))
    /\ UNCHANGED <<diagnostics, scoreResult, config, filtered, pc, response, filePath, pattern, lintVars, diagVars, walkVars, unitVars>>

NextGlob == TestGlob

SpecGlob == InitGlob /\ [][NextGlob]_vars

\* The glob semantics of C8: ** matches any run of characters, * any run of
\* characters other than /, every other character itself, and the pattern
\* covers the whole path.
RECURSIVE GlobSemantics(_, _)
GlobSemantics(p, s) ==
    IF p = <<>> THEN s = <<>>
    ELSE IF StartsWith(p, <<"*", "*">>)
         THEN \E k \in 0..Len(s) : GlobSemantics(Drop(p, 2), Drop(s, k))
    ELSE IF Head(p) = "*"
         THEN \E k \in 0..Len(s) :
                 /\ \A i \in 1..k : s[i] # "/"
                 /\ GlobSemantics(Tail(p), Drop(s, k))
    ELSE s # <<>> /\ Head(s) = Head(p) /\ GlobSemantics(Tail(p), Tail(s))

HasQuestionMark(p) == \E i \in DOMAIN p : p[i] = "?"

\* C8: * matches any run of characters inside one path segment and never a
\* /, ** matches across segments, and the pattern must match the whole
\* path; "/src/*.vue" matches "/src/test.vue" and not
\* "/src/components/test.vue"; "**/Bad.vue" matches
\* "/src/components/Bad.vue" and "/src/views/Bad.vue" and not
\* "/src/components/Good.vue".
C8_StarSemantics ==
    matched # None =>
        /\ ~HasQuestionMark(pattern) => matched[1] = GlobSemantics(pattern, filePath)
        /\ (pattern = Pattern_src_star_vue /\ filePath = Path_src_test) => matched[1]
        /\ (pattern = Pattern_src_star_vue /\ filePath = Path_src_components_test)
              => ~matched[1]
        /\ (pattern = Pattern_dstar_Bad /\ filePath = Path_components_Bad) => matched[1]
        /\ (pattern = Pattern_dstar_Bad /\ filePath = Path_views_Bad) => matched[1]
        /\ (pattern = Pattern_dstar_Bad /\ filePath = Path_components_Good) => ~matched[1]

\* C8 witness: "/src/*.vue" has been tested against a nested path and refused.
C8_Witness ==
    /\ matched = Some(FALSE)
    /\ pattern = Pattern_src_star_vue
    /\ filePath = Path_src_components_test

\* C9: ? matches exactly one character: "src/?.vue" matches "src/a.vue" and
\* does not match "src/ab.vue".
C9_QuestionMark ==
    (matched # None /\ pattern = Pattern_question) =>
        /\ filePath = Path_src_a => matched[1]
        /\ filePath = Path_src_ab => ~matched[1]

\* C10: a double star followed by / matches zero or more directory levels:
\* "src/**/test.vue" matches "src/test.vue", "src/foo/test.vue" and
\* "src/foo/bar/test.vue", and "**/*.vue" matches "Button.vue" as well as
\* "deep/nested/path/file.vue".
C10_ZeroOrMoreDirectories ==
    matched # None =>
        /\ (pattern = Pattern_src_dstar_test /\ filePath = Path_rel_test) => matched[1]
        /\ (pattern = Pattern_src_dstar_test /\ filePath = Path_rel_foo_test) => matched[1]
        /\ (pattern = Pattern_src_dstar_test /\ filePath = Path_rel_foo_bar_test)
              => matched[1]
        /\ (pattern = Pattern_dstar_star_vue /\ filePath = Path_Button) => matched[1]
        /\ (pattern = Pattern_dstar_star_vue /\ filePath = Path_deep) => matched[1]

(***************************************************************************)
(* The filter specification: filterIgnoredDiagnostics is applied to a      *)
(* diagnostic list and an ignore configuration.                            *)
(***************************************************************************)
FilterPaths == {Path_src_b_abs, Path_components_Bad}
\* plugin and rule of the diagnostics that are filtered
FilterRuleIds ==
    {<<"vue-doctor", "no-v-html">>, <<"vue-doctor", "no-eval">>, <<"knip", "no-v-html">>}

\* the diagnostics that the filtered lists are made of
DiagnosticPool ==
    {[filePath |-> f, plugin |-> id[1], rule |-> id[2], severity |-> "error"] :
        f \in FilterPaths, id \in FilterRuleIds}

RuleOptions ==
    {None, Some(<<"no-v-html">>), Some(<<"vue-doctor/no-v-html">>),
     Some(<<"no-eval", "knip/no-v-html">>)}

FileOptions ==
    {None, Some(<<>>), Some(<<Pattern_dstar_Bad>>),
     Some(<<Pattern_src_b, Pattern_components_star>>)}

Configs ==
    {EmptyConfig} \cup
    {[ignore |-> Some([rules |-> r, files |-> f])] : r \in RuleOptions, f \in FileOptions}

InitFilter ==
    /\ diagnostics \in SeqsUpTo(DiagnosticPool, MaxFiltered)
    /\ config \in Configs
    /\ filtered = None
    /\ scoreResult = None
    /\ RemoteIdle /\ GlobIdle /\ LintIdle /\ DiagIdle /\ WalkIdle /\ UnitIdle

\* const diagnostics = filterIgnoredDiagnostics(allDiagnostics, userConfig)
Filter ==
    /\ filtered = None
    /\ filtered' = Some(filterIgnoredDiagnostics(diagnostics, config))
    /\ UNCHANGED <<diagnostics, scoreResult, config, pc, response, filePath, pattern, matched, lintVars, diagVars, walkVars, unitVars>>

NextFilter == Filter

SpecFilter == InitFilter /\ [][NextFilter]_vars

\* the rules and the patterns of the configuration, as sets
RuleSet == {IgnoredRules(config)[i] : i \in DOMAIN IgnoredRules(config)}
FileSet == {IgnoredFiles(config)[i] : i \in DOMAIN IgnoredFiles(config)}

\* the diagnostic is neither ignored by rule nor by file
Kept(d) ==
    /\ d.rule \notin RuleSet
    /\ (d.plugin \o "/" \o d.rule) \notin RuleSet
    /\ \A p \in FileSet : ~matchesGlobPattern(d.filePath, p)

KeptIndices == {i \in DOMAIN diagnostics : Kept(diagnostics[i])}

\* the index in diagnostics of the k-th diagnostic that is kept
NthKept(k) ==
    CHOOSE i \in KeptIndices : Cardinality({j \in KeptIndices : j <= i}) = k

\* C6: filterIgnoredDiagnostics returns, unmodified and in their original
\* order, exactly the diagnostics whose rule is not listed in ignore.rules
\* (neither as the bare rule name nor as plugin/rule) and whose file path
\* matches no ignore.files pattern.
C6_FilterExact ==
    filtered # None =>
        /\ Len(filtered[1]) = Cardinality(KeptIndices)
        /\ \A k \in DOMAIN filtered[1] : filtered[1][k] = diagnostics[NthKept(k)]

\* C6 witness: one diagnostic was dropped by its bare rule name, another by
\* a file pattern, and one was kept.
C6_Witness ==
    /\ filtered # None
    /\ Len(filtered[1]) >= 1
    /\ \E i \in DOMAIN diagnostics : diagnostics[i].rule \in RuleSet
    /\ \E i \in DOMAIN diagnostics :
          /\ diagnostics[i].rule \notin RuleSet
          /\ (diagnostics[i].plugin \o "/" \o diagnostics[i].rule) \notin RuleSet
          /\ ~Kept(diagnostics[i])

\* C7: filtering the already filtered list again with the same
\* configuration returns the same list.
C7_Idempotent ==
    filtered # None => filterIgnoredDiagnostics(filtered[1], config) = filtered[1]

\* C7 witness: the filter dropped two diagnostics in a row and kept others.
C7_Witness ==
    /\ filtered # None
    /\ Len(filtered[1]) >= 1
    /\ \E i \in 1..(Len(diagnostics) - 1) :
          ~Kept(diagnostics[i]) /\ ~Kept(diagnostics[i + 1])

(***************************************************************************)
(* runEslint: the lint phase.  Every file is read, handed to the linter    *)
(* with the rule configuration of the project, and the messages of the     *)
(* linter become diagnostics.                                              *)
(*                                                                         *)
(* The plugin is modelled with the eight rules of the Nuxt group, no-eval  *)
(* and require-emits-declaration.  A source file is the list of the        *)
(* functions it calls (one call per line, each an Identifier callee), so   *)
(* that of these rules only no-eval, require-emits-declaration,            *)
(* require-seo-meta and require-define-page-meta have anything to report.  *)
(***************************************************************************)
MaxFiles == 2          \* most files in a linted project

\* nuxtRules
nuxtRules ==
    {"use-usefetch-over-fetch", "require-server-route-error-handling",
     "no-window-in-ssr", "require-seo-meta", "no-process-env-in-client",
     "require-define-page-meta", "no-server-only-import-in-client",
     "no-client-composable-in-server-route"}

\* Object.keys(vueDoctorPlugin.rules), in the order of the plugin
RuleOrder ==
    <<"no-eval", "require-emits-declaration",
      "use-usefetch-over-fetch", "require-server-route-error-handling",
      "no-window-in-ssr", "require-seo-meta", "no-process-env-in-client",
      "require-define-page-meta", "no-server-only-import-in-client",
      "no-client-composable-in-server-route">>

vueDoctorPlugin_rules == {RuleOrder[i] : i \in 1..Len(RuleOrder)}

\* the characters of a rule name
RuleNameChars(ruleName) ==
    CASE ruleName = "use-usefetch-over-fetch" ->
           <<"u","s","e","-","u","s","e","f","e","t","c","h","-","o","v","e","r","-","f","e","t","c","h">>
      [] ruleName = "require-server-route-error-handling" ->
           <<"r","e","q","u","i","r","e","-","s","e","r","v","e","r","-","r","o","u","t","e","-","e","r","r","o","r","-","h","a","n","d","l","i","n","g">>
      [] ruleName = "no-window-in-ssr" ->
           <<"n","o","-","w","i","n","d","o","w","-","i","n","-","s","s","r">>
      [] ruleName = "require-seo-meta" ->
           <<"r","e","q","u","i","r","e","-","s","e","o","-","m","e","t","a">>
      [] ruleName = "no-process-env-in-client" ->
           <<"n","o","-","p","r","o","c","e","s","s","-","e","n","v","-","i","n","-","c","l","i","e","n","t">>
      [] ruleName = "require-define-page-meta" ->
           <<"r","e","q","u","i","r","e","-","d","e","f","i","n","e","-","p","a","g","e","-","m","e","t","a">>
      [] ruleName = "no-server-only-import-in-client" ->
           <<"n","o","-","s","e","r","v","e","r","-","o","n","l","y","-","i","m","p","o","r","t","-","i","n","-","c","l","i","e","n","t">>
      [] ruleName = "no-client-composable-in-server-route" ->
           <<"n","o","-","c","l","i","e","n","t","-","c","o","m","p","o","s","a","b","l","e","-","i","n","-","s","e","r","v","e","r","-","r","o","u","t","e">>
      [] ruleName = "no-eval" ->
           <<"n","o","-","e","v","a","l">>
      [] ruleName = "require-emits-declaration" ->
           <<"r","e","q","u","i","r","e","-","e","m","i","t","s","-","d","e","c","l","a","r","a","t","i","o","n">>

\* the prefixes buildRuleConfig takes for the names of the Nuxt rules
NuxtRulePrefixes ==
    {<<"u","s","e","-","u","s","e","f","e","t","c","h">>,
     <<"r","e","q","u","i","r","e","-","s","e","r","v","e","r","-","r","o","u","t","e">>,
     <<"n","o","-","w","i","n","d","o","w","-","i","n","-","s","s","r">>,
     <<"r","e","q","u","i","r","e","-","s","e","o","-","m","e","t","a">>,
     <<"n","o","-","p","r","o","c","e","s","s","-","e","n","v","-","i","n","-","c","l","i","e","n","t">>}

RULE_SEVERITY_MAP ==
    [rule \in {"no-v-if-with-v-for", "no-prop-mutation", "no-eval", "no-secrets-in-client",
               "no-async-watcheffect", "no-mutation-in-computed", "no-this-in-setup",
               "no-reactive-destructure", "no-async-computed",
               "no-conditional-composable-call", "no-window-in-ssr",
               "no-server-only-import-in-client", "no-client-composable-in-server-route",
               "no-autofocus", "no-positive-tabindex", "require-button-type",
               "require-img-alt", "require-accessible-form-control-name",
               "no-click-without-keyboard-handler", "require-media-captions",
               "no-aria-hidden-on-focusable", "require-define-page-meta",
               "use-usefetch-over-fetch", "require-server-route-error-handling"} |->
        IF rule \in {"require-define-page-meta", "use-usefetch-over-fetch",
                     "require-server-route-error-handling"}
        THEN "warning" ELSE "error"]

\* RULE_SEVERITY_MAP[rule] ?? "warning"
getRuleSeverity(rule) ==
    IF rule \in DOMAIN RULE_SEVERITY_MAP THEN RULE_SEVERITY_MAP[rule] ELSE "warning"

\* ruleName.startsWith(...) || ... of buildRuleConfig
isNuxtRule(ruleName) ==
    \E prefix \in NuxtRulePrefixes : StartsWith(RuleNameChars(ruleName), prefix)

\* `vue-doctor/${ruleName}`
RuleId(ruleName) == "vue-doctor/" \o ruleName

\* buildRuleConfig: the levels of the enabled rules, by rule id
buildRuleConfig(fw, isNuxt) ==
    LET enabled == {ruleName \in vueDoctorPlugin_rules : ~(isNuxtRule(ruleName) /\ ~isNuxt)}
    IN  [ruleId \in {RuleId(ruleName) : ruleName \in enabled} |->
            LET ruleName == CHOOSE n \in enabled : RuleId(n) = ruleId
            IN  IF getRuleSeverity(ruleName) = "error" THEN "error" ELSE "warn"]

\* rootDirectory and the files below it
RootDirectory == <<"/","a","p","p">>
Path_pages_a == <<"/","a","p","p","/","p","a","g","e","s","/","a",".","v","u","e">>
Path_src_b == <<"/","a","p","p","/","s","r","c","/","b",".","v","u","e">>
Path_src_c == <<"/","a","p","p","/","s","r","c","/","c",".","v","u","e">>
LintPaths == {Path_pages_a, Path_src_b, Path_src_c}

\* filename.includes(part)
Includes(s, part) ==
    \E i \in 0..(Len(s) - Len(part)) : SubSeq(s, i + 1, i + Len(part)) = part

\* path.relative(rootDirectory, filePath), for a file below rootDirectory
PathRelative(root, path) ==
    IF StartsWith(path, root \o <<"/">>) THEN Drop(path, Len(root) + 1) ELSE path

\* What a file holds: the callees of its calls, one call per line; whether
\* the parser accepts it; a configuration comment /* eslint rule: level */,
\* if any; and the rule that throws when it evaluates this file, if any.
SourceText(parses, calls, inline, crash) ==
    [parses |-> parses, calls |-> calls, inline |-> inline, crash |-> crash]

Unparseable == SourceText(FALSE, <<>>, None, "none")

Calls_emit == <<"emit">>
Calls_declared == <<"defineEmits", "emit">>
Calls_eval_emit == <<"eval", "emit">>
Calls_meta == <<"definePageMeta", "useSeoMeta">>
ExampleCalls == {Calls_emit, Calls_declared, Calls_eval_emit, Calls_meta}

\* a comment that lowers no-eval to a warning
InlineWarnEval == Some([ruleId |-> RuleId("no-eval"), level |-> "warn"])
\* a comment that turns require-emits-declaration into an error
InlineErrorEmits == Some([ruleId |-> RuleId("require-emits-declaration"), level |-> "error"])

\* the contents a file can have: <<>> is a file that cannot be read
Contents ==
    {None, Some(Unparseable)}
    \cup {Some(SourceText(TRUE, calls, None, "none")) : calls \in ExampleCalls}
    \cup {Some(SourceText(TRUE, Calls_eval_emit, inline, "none")) :
             inline \in {InlineWarnEval, InlineErrorEmits}}
    \cup {Some(SourceText(TRUE, Calls_eval_emit, None, crash)) :
             crash \in {"no-eval", "require-seo-meta"}}

SourceFiles == [filePath : LintPaths, content : Contents]

\* ---- the rules, as their visitors act on a file ----

\* requireEmitsDeclaration.create: the closure variables of a new instance.
\* Nothing of an earlier instance (leftover) is reachable from the new one.
requireEmitsDeclaration_Stale(leftover) == leftover

requireEmitsDeclaration_create(leftover) ==
    [hasDefineEmits |-> FALSE, emitCalls |-> <<>>]

\* only the last emit call is kept
requireEmitsDeclaration_CallExpression_Last(closure, callee, line) ==
    [hasDefineEmits |-> closure.hasDefineEmits \/ callee = "defineEmits",
     emitCalls |-> IF callee = "emit" THEN <<line>> ELSE closure.emitCalls]

\* requireEmitsDeclaration: CallExpression(node), node on the given line
requireEmitsDeclaration_CallExpression(closure, callee, line) ==
    [hasDefineEmits |-> closure.hasDefineEmits \/ callee = "defineEmits",
     emitCalls |-> IF callee = "emit" THEN Append(closure.emitCalls, line)
                   ELSE closure.emitCalls]

\* the closure variables once the first n calls of the file are visited
RECURSIVE requireEmitsDeclaration_Visit(_, _, _)
requireEmitsDeclaration_Visit(closure, calls, n) ==
    IF n = 0 THEN closure
    ELSE requireEmitsDeclaration_CallExpression(
             requireEmitsDeclaration_Visit(closure, calls, n - 1), calls[n], n)

\* requireEmitsDeclaration: "Program:exit", the lines of its reports, one
\* entry for every context.report
requireEmitsDeclaration_ProgramExit(closure) ==
    IF ~closure.hasDefineEmits /\ Len(closure.emitCalls) > 0
    THEN closure.emitCalls
    ELSE <<>>

\* isPage of requireSeoMeta, isPageFile of requireDefinePageMeta
IsPageFile(filename) == Includes(filename, <<"/","p","a","g","e","s","/">>)

\* isServerRoute of noClientComposableInServerRoute
IsServerRoute(filename) ==
    \/ Includes(filename, <<"/","s","e","r","v","e","r","/","a","p","i","/">>)
    \/ Includes(filename, <<"/","s","e","r","v","e","r","/","r","o","u","t","e","s","/">>)

\* the line of the Program node
ProgramLine == 1

\* The lines on which a rule reports, for a file of the given name and calls;
\* closure holds the closure variables of require-emits-declaration at
\* Program:exit.
RuleReports(ruleName, filename, calls, closure) ==
    CASE ruleName = "no-eval" ->
           {i \in 1..Len(calls) : calls[i] = "eval"}
      [] ruleName = "require-emits-declaration" ->
           LET reports == requireEmitsDeclaration_ProgramExit(closure)
           IN  {reports[i] : i \in 1..Len(reports)}
      [] ruleName = "require-seo-meta" ->
           IF IsPageFile(filename)
              /\ ~\E i \in 1..Len(calls) :
                     calls[i] \in {"useSeoMeta", "useHead", "useServerSeoMeta"}
           THEN {ProgramLine} ELSE {}
      [] ruleName = "require-define-page-meta" ->
           IF IsPageFile(filename) /\ ~\E i \in 1..Len(calls) : calls[i] = "definePageMeta"
           THEN {ProgramLine} ELSE {}
      [] ruleName = "no-client-composable-in-server-route" ->
           IF IsServerRoute(filename)
           THEN {i \in 1..Len(calls) :
                    calls[i] \in {"useRoute", "useRouter", "onMounted", "useHead", "useSeoMeta"}}
           ELSE {}
      \* fetch(), defineEventHandler(), the globals of the browser, process.env
      \* and import declarations do not occur in the modelled files
      [] OTHER -> {}

\* ---- linter.verify ----

\* the rule levels in force for a file: those of the configuration, changed
\* by the configuration comment of the file
EffectiveLevels(rules, inline) ==
    IF inline = None THEN rules
    ELSE [ruleId \in DOMAIN rules \cup {inline[1].ruleId} |->
             IF ruleId = inline[1].ruleId THEN inline[1].level ELSE rules[ruleId]]

\* the rules the linter runs on a file, in the order of the plugin
RunRules(levels) ==
    SelectSeq(RuleOrder, LAMBDA ruleName :
        RuleId(ruleName) \in DOMAIN levels /\ levels[RuleId(ruleName)] # "off")

\* a message of the linter
LintMessage(ruleId, severity, line) ==
    [ruleId |-> ruleId, severity |-> severity, line |-> line]

\* the message the linter returns for a file the parser rejects
FatalMessage == LintMessage(None, 2, 1)

\* the messages of the given rules, sorted by line
SortedMessages(run, levels, filename, calls, closure) ==
    LET n == Len(run)
        lines == Max(Len(calls), ProgramLine)
        slot(k) == [line |-> ((k - 1) \div n) + 1, ruleName |-> run[((k - 1) % n) + 1]]
        slots == [k \in 1..(lines * n) |-> slot(k)]
        hits == SelectSeq(slots, LAMBDA s :
                    s.line \in RuleReports(s.ruleName, filename, calls, closure))
    IN  [k \in 1..Len(hits) |->
            LintMessage(Some(RuleId(hits[k].ruleName)),
                        IF levels[RuleId(hits[k].ruleName)] = "error" THEN 2 ELSE 1,
                        hits[k].line)]

\* a rule that throws leaves the messages of the rules that ran before it
Verify_Partial(text, rules, filename, leftover) ==
    LET levels == EffectiveLevels(rules, text.inline)
        closure == requireEmitsDeclaration_Visit(requireEmitsDeclaration_create(leftover),
                                                 text.calls, Len(text.calls))
    IN  IF ~text.parses THEN [threw |-> FALSE, messages |-> <<FatalMessage>>, closure |-> leftover]
        ELSE [threw |-> FALSE,
              messages |-> SortedMessages(SelectSeq(RunRules(levels),
                                                    LAMBDA r : r # text.crash),
                                          levels, filename, text.calls, closure),
              closure |-> closure]

\* linter.verify(content, configs, filePath): the messages, or threw when a
\* rule throws; closure is what the require-emits-declaration instance of
\* this call holds at the end
Verify(text, rules, filename, leftover) ==
    LET levels == EffectiveLevels(rules, text.inline)
        run == RunRules(levels)
        closure == requireEmitsDeclaration_Visit(requireEmitsDeclaration_create(leftover),
                                                 text.calls, Len(text.calls))
    IN  IF ~text.parses
        THEN [threw |-> FALSE, messages |-> <<FatalMessage>>, closure |-> leftover]
        ELSE IF \E i \in 1..Len(run) : run[i] = text.crash
        THEN [threw |-> TRUE, messages |-> <<>>, closure |-> closure]
        ELSE [threw |-> FALSE,
              messages |-> SortedMessages(run, levels, filename, text.calls, closure),
              closure |-> closure]

\* ---- the loop of runEslint ----

\* ruleId.replace(/^vue-doctor\//, "")
StripPluginPrefix(ruleId) ==
    IF \E ruleName \in vueDoctorPlugin_rules : RuleId(ruleName) = ruleId
    THEN CHOOSE ruleName \in vueDoctorPlugin_rules : RuleId(ruleName) = ruleId
    ELSE ruleId

\* the severity of the message of the linter is taken over
toDiagnostic_MessageSeverity(msg, relativePath) ==
    [filePath |-> relativePath, plugin |-> "vue-doctor",
     rule |-> StripPluginPrefix(msg.ruleId[1]),
     severity |-> IF msg.severity = 2 THEN "error" ELSE "warning",
     line |-> msg.line]

\* the diagnostic pushed for a message that has a ruleId
toDiagnostic(msg, relativePath) ==
    [filePath |-> relativePath, plugin |-> "vue-doctor",
     rule |-> StripPluginPrefix(msg.ruleId[1]),
     severity |-> getRuleSeverity(StripPluginPrefix(msg.ruleId[1])),
     line |-> msg.line]

\* for (const msg of messages) { if (!msg.ruleId) continue; ...push(...) }
toDiagnostics(messages, relativePath) ==
    LET reported == SelectSeq(messages, LAMBDA msg : msg.ruleId # None)
    IN  [k \in 1..Len(reported) |-> toDiagnostic(reported[k], relativePath)]

\* a message without ruleId is pushed as well
lintOneFile_FatalPushed(file, rules, leftover) ==
    IF file.content = None THEN [pushed |-> <<>>, closure |-> leftover]
    ELSE LET relativePath == PathRelative(RootDirectory, file.filePath)
             verified == Verify(file.content[1], rules, file.filePath, leftover)
         IN  [pushed |-> [k \in 1..Len(verified.messages) |->
                             IF verified.messages[k].ruleId = None
                             THEN [filePath |-> relativePath, plugin |-> "vue-doctor",
                                   rule |-> "", severity |-> "warning",
                                   line |-> verified.messages[k].line]
                             ELSE toDiagnostic(verified.messages[k], relativePath)],
              closure |-> verified.closure]

\* One pass of the loop body: the diagnostics it pushes.  readFileSync that
\* throws and linter.verify that throws both end the pass with nothing pushed.
lintOneFile(file, rules, leftover) ==
    IF file.content = None THEN [pushed |-> <<>>, closure |-> leftover]
    ELSE LET relativePath == PathRelative(RootDirectory, file.filePath)
             verified == Verify(file.content[1], rules, file.filePath, leftover)
         IN  IF verified.threw THEN [pushed |-> <<>>, closure |-> verified.closure]
             ELSE [pushed |-> toDiagnostics(verified.messages, relativePath),
                   closure |-> verified.closure]

\* the frameworks of the linted projects: Nuxt, and one that is not Nuxt
Frameworks == {"nuxt", "vite"}

FreshClosure == [hasDefineEmits |-> FALSE, emitCalls |-> <<>>]

\* the lists of at most n files with different paths
FileLists(n) ==
    {fs \in SeqsUpTo(SourceFiles, n) :
        \A i, j \in 1..Len(fs) : i # j => fs[i].filePath # fs[j].filePath}

InitLint ==
    /\ files \in FileLists(MaxFiles)
    /\ framework \in Frameworks
    /\ ruleConfig = None
    /\ fileIndex = 0
    /\ allDiagnostics = <<>>
    /\ lintResult = None
    /\ ruleState = FreshClosure
    /\ ScoreIdle /\ FilterIdle /\ RemoteIdle /\ GlobIdle /\ DiagIdle /\ WalkIdle /\ UnitIdle

pipelineVars == <<diagnostics, scoreResult, config, filtered, pc, response, filePath, pattern,
                  matched>>

\* runEslint up to the loop: if (files.length === 0) return []
ReturnNoFiles ==
    /\ lintResult = None /\ ruleConfig = None
    /\ Len(files) = 0
    /\ lintResult' = Some(<<>>)
    /\ UNCHANGED <<files, framework, ruleConfig, fileIndex, allDiagnostics, ruleState>>
    /\ UNCHANGED <<pipelineVars, diagVars, walkVars, unitVars>>

\* runEslint up to the loop: const ruleConfig = buildRuleConfig(framework, isNuxt)
BuildRuleConfig ==
    /\ lintResult = None /\ ruleConfig = None
    /\ Len(files) > 0
    /\ ruleConfig' = Some(buildRuleConfig(framework, framework = "nuxt"))
    /\ UNCHANGED <<files, framework, fileIndex, allDiagnostics, lintResult, ruleState>>
    /\ UNCHANGED <<pipelineVars, diagVars, walkVars, unitVars>>

\* one pass of for (const filePath of files)
LintFile ==
    /\ lintResult = None /\ ruleConfig # None
    /\ fileIndex < Len(files)
    /\ LET pass == lintOneFile(files[fileIndex + 1], ruleConfig[1], ruleState)
       IN  /\ allDiagnostics' = allDiagnostics \o pass.pushed
           /\ ruleState' = pass.closure
    /\ fileIndex' = fileIndex + 1
    /\ UNCHANGED <<files, framework, ruleConfig, lintResult>>
    /\ UNCHANGED <<pipelineVars, diagVars, walkVars, unitVars>>

\* return allDiagnostics
ReturnDiagnostics ==
    /\ lintResult = None /\ ruleConfig # None
    /\ fileIndex = Len(files)
    /\ lintResult' = Some(allDiagnostics)
    /\ UNCHANGED <<files, framework, ruleConfig, fileIndex, allDiagnostics, ruleState>>
    /\ UNCHANGED <<pipelineVars, diagVars, walkVars, unitVars>>

NextLint ==
    \/ ReturnNoFiles
    \/ BuildRuleConfig
    \/ LintFile
    \/ ReturnDiagnostics

SpecLint == InitLint /\ [][NextLint]_vars

\* ---- what runEslint returns ----

LintReturned == lintResult # None

\* the diagnostics of a list that belong to the i-th file
DiagsOfFile(ds, i) ==
    SelectSeq(ds, LAMBDA d : d.filePath = PathRelative(RootDirectory, files[i].filePath))

Unreadable(file) == file.content = None
Unparsed(file) == file.content # None /\ ~file.content[1].parses

\* the rule configuration of the project
ProjectRules == buildRuleConfig(framework, framework = "nuxt")

\* a rule throws while the linter evaluates the file
RuleThrows(file) ==
    /\ file.content # None /\ file.content[1].parses
    /\ LET levels == EffectiveLevels(ProjectRules, file.content[1].inline)
           id == RuleId(file.content[1].crash)
       IN  id \in DOMAIN levels /\ levels[id] # "off"

\* what runEslint returns for a project that holds this file only
ScannedAlone(file) == lintOneFile(file, ProjectRules, FreshClosure).pushed

\* the diagnostics of the rules that do not throw on the file
OtherRulesDiagnostics(file) ==
    toDiagnostics(Verify_Partial(file.content[1], ProjectRules, file.filePath,
                                 FreshClosure).messages,
                  PathRelative(RootDirectory, file.filePath))

\* C11: a file that cannot be read or parsed contributes no diagnostic, and
\* runEslint still goes through every file and returns the diagnostics of
\* the files that can be read and parsed.
C11_BadFileSkipped ==
    LintReturned =>
        /\ fileIndex = Len(files)
        /\ \A i \in 1..Len(files) :
              IF Unreadable(files[i]) \/ Unparsed(files[i])
              THEN DiagsOfFile(lintResult[1], i) = <<>>
              ELSE RuleThrows(files[i])
                   \/ DiagsOfFile(lintResult[1], i) = OtherRulesDiagnostics(files[i])

\* a file that cannot be read, then a file that cannot be parsed, then ...:
\* the bad file comes first and a later file has its diagnostics returned
C11_Witness ==
    /\ LintReturned /\ Len(files) = 2
    /\ Unreadable(files[1]) \/ Unparsed(files[1])
    /\ ~RuleThrows(files[2])
    /\ DiagsOfFile(lintResult[1], 2) # <<>>

\* C12: a rule that throws on a file aborts neither the other rules on that
\* file nor the other files: the diagnostics of the other rules for the
\* file and all diagnostics of the other files are returned.
C12_RuleThrowIsolated ==
    LintReturned =>
        \A i \in 1..Len(files) :
            RuleThrows(files[i]) =>
                /\ DiagsOfFile(lintResult[1], i) = OtherRulesDiagnostics(files[i])
                /\ \A j \in 1..Len(files) :
                      j # i => DiagsOfFile(lintResult[1], j) = ScannedAlone(files[j])

\* C13: at every moment the list holds, for every file, either every
\* diagnostic the evaluation of the file produces or none; a file whose
\* evaluation fails (not read, not parsed, a rule throws) leaves none.
C13_AllOrNothing ==
    \A i \in 1..Len(files) :
        LET held == DiagsOfFile(allDiagnostics, i)
            failed == Unreadable(files[i]) \/ Unparsed(files[i]) \/ RuleThrows(files[i])
        IN  /\ failed => held = <<>>
            /\ ~failed => held \in {<<>>, OtherRulesDiagnostics(files[i])}
            /\ LintReturned /\ ~failed =>
                  DiagsOfFile(lintResult[1], i) = OtherRulesDiagnostics(files[i])

\* a rule throws on a file for which the other rules have diagnostics, and
\* another file has diagnostics
C13_Witness ==
    /\ LintReturned
    /\ \E i, j \in 1..Len(files) :
          /\ RuleThrows(files[i])
          /\ OtherRulesDiagnostics(files[i]) # <<>>
          /\ DiagsOfFile(lintResult[1], i) = <<>>
          /\ DiagsOfFile(lintResult[1], j) # <<>>

\* C14: the diagnostics returned for a file are those of the file scanned
\* alone, whatever files were linted before it.
C14_FreshRuleState ==
    LintReturned =>
        \A i \in 1..Len(files) : DiagsOfFile(lintResult[1], i) = ScannedAlone(files[i])

\* defineEmits() in the first file, emit() without defineEmits() in the
\* second, which is reported
C14_Witness ==
    /\ LintReturned /\ Len(files) = 2
    /\ files[1].content = Some(SourceText(TRUE, Calls_declared, None, "none"))
    /\ files[2].content = Some(SourceText(TRUE, Calls_emit, None, "none"))
    /\ \E k \in 1..Len(lintResult[1]) :
          /\ lintResult[1][k].rule = "require-emits-declaration"
          /\ lintResult[1][k].filePath = PathRelative(RootDirectory, files[2].filePath)

\* C15: for a project that is not a Nuxt project no rule of nuxtRules is
\* enabled in the rule configuration, and no diagnostic of such a rule is
\* returned.
C15_NoNuxtRuleOutsideNuxt ==
    framework # "nuxt" =>
        /\ ruleConfig # None =>
              \A ruleName \in nuxtRules : RuleId(ruleName) \notin DOMAIN ruleConfig[1]
        /\ \A k \in 1..Len(allDiagnostics) : allDiagnostics[k].rule \notin nuxtRules

\* C16: every diagnostic has the severity of the severity table for its
\* rule name, "warning" for a rule the table does not hold.
C16_SeverityFromTable ==
    \A k \in 1..Len(allDiagnostics) :
        LET d == allDiagnostics[k]
        IN  d.severity = IF d.rule \in DOMAIN RULE_SEVERITY_MAP
                         THEN RULE_SEVERITY_MAP[d.rule] ELSE "warning"

\* a comment lowers no-eval to a warning and the diagnostic is an error; a
\* comment raises require-emits-declaration to an error and the diagnostic
\* is a warning
C16_Witness ==
    /\ LintReturned /\ Len(files) = 2
    /\ files[1].content = Some(SourceText(TRUE, Calls_eval_emit, InlineWarnEval, "none"))
    /\ files[2].content = Some(SourceText(TRUE, Calls_eval_emit, InlineErrorEmits, "none"))
    /\ \E k \in 1..Len(lintResult[1]) :
          /\ lintResult[1][k].rule = "no-eval" /\ lintResult[1][k].severity = "error"
          /\ lintResult[1][k].filePath = PathRelative(RootDirectory, files[1].filePath)
    /\ \E k \in 1..Len(lintResult[1]) :
          /\ lintResult[1][k].rule = "require-emits-declaration"
          /\ lintResult[1][k].severity = "warning"
          /\ lintResult[1][k].filePath = PathRelative(RootDirectory, files[2].filePath)

(***************************************************************************)
(* diagnose and scan: the project is discovered, the configuration is      *)
(* loaded, the lint phase and the dead-code phase run side by side, and    *)
(* their diagnostics are filtered and scored.                              *)
(***************************************************************************)
\* a JSON file of the project directory
AbsentFile == [exists |-> FALSE, parses |-> FALSE, value |-> None]
MalformedFile == [exists |-> TRUE, parses |-> FALSE, value |-> None]
\* value: the configuration the file holds, <<>> when it holds none
JsonFile(value) == [exists |-> TRUE, parses |-> TRUE, value |-> value]

VueDoctorConfig(ignore, lint, deadCode) ==
    [ignore |-> ignore, lint |-> lint, deadCode |-> deadCode]

\* "?.vue": new RegExp("^?\\.vue$") throws
Pattern_question_vue == <<"?",".","v","u","e">>

Config_empty == VueDoctorConfig(None, None, None)
Config_off == VueDoctorConfig(None, Some(FALSE), Some(FALSE))
Config_ignore_eval ==
    VueDoctorConfig(Some([rules |-> Some(<<"no-eval">>), files |-> None]), Some(FALSE), None)
Config_ignore_question ==
    VueDoctorConfig(Some([rules |-> None, files |-> Some(<<Pattern_question_vue>>)]), None, None)
UserConfigs == {Config_empty, Config_off, Config_ignore_eval, Config_ignore_question}

\* a malformed configuration file is passed over for the key of package.json
loadConfig_FallThrough(configFile, packageJson) ==
    IF configFile.exists /\ configFile.parses THEN configFile.value
    ELSE IF packageJson.exists /\ packageJson.parses THEN packageJson.value
    ELSE None

\* loadConfig(directory): the configuration, <<>> for null.  configFile is
\* vue-doctor.config.json; packageJson is package.json, its value the
\* vueDoctor key.
loadConfig(configFile, packageJson) ==
    IF configFile.exists
    THEN IF configFile.parses THEN configFile.value ELSE None
    ELSE IF packageJson.exists
    THEN IF packageJson.parses THEN packageJson.value ELSE None
    ELSE None

\* the diagnostics of the phases
Path_rel_src_b == <<"s","r","c","/","b",".","v","u","e">>
Path_rel_pages_a == <<"p","a","g","e","s","/","a",".","v","u","e">>
Path_package_json == <<"p","a","c","k","a","g","e",".","j","s","o","n">>
Diagnostic_eval ==
    [filePath |-> Path_rel_src_b, plugin |-> "vue-doctor", rule |-> "no-eval",
     severity |-> "error"]
Diagnostic_emits ==
    [filePath |-> Path_rel_pages_a, plugin |-> "vue-doctor",
     rule |-> "require-emits-declaration", severity |-> "warning"]
Diagnostic_unused ==
    [filePath |-> Path_rel_src_b, plugin |-> "knip", rule |-> "files", severity |-> "warning"]
Diagnostic_motion ==
    [filePath |-> Path_package_json, plugin |-> "vue-doctor",
     rule |-> "require-reduced-motion", severity |-> "error"]

\* what runEslint and runKnip can resolve to
LintLists == {<<>>, <<Diagnostic_eval>>, <<Diagnostic_eval, Diagnostic_emits>>}
DeadCodeLists == {<<>>, <<Diagnostic_unused>>}

\* checkReducedMotion(resolvedDirectory): a diagnostic for a project that
\* uses a motion library without prefers-reduced-motion support
checkReducedMotion(proj) == IF proj.motion THEN <<Diagnostic_motion>> ELSE <<>>

\* a ?? b ?? true
NullishOrTrue(a, b) == IF a # None THEN a[1] ELSE IF b # None THEN b[1] ELSE TRUE

\* a promise of a phase: not started for a disabled phase, which resolves to []
NotStarted == [started |-> FALSE, settled |-> TRUE, value |-> <<>>, failed |-> FALSE]
Pending == [started |-> TRUE, settled |-> FALSE, value |-> <<>>, failed |-> FALSE]
Fulfilled(ds) == [started |-> TRUE, settled |-> TRUE, value |-> ds, failed |-> FALSE]
\* .catch(() => [])
Caught == [started |-> TRUE, settled |-> TRUE, value |-> <<>>, failed |-> TRUE]

\* isFileIgnored reaches a pattern whose RegExp does not compile
FileIgnoreThrows(diagnostic, ignoredFiles) ==
    \E k \in DOMAIN ignoredFiles :
        /\ ~RegExpCompiles(ignoredFiles[k])
        /\ \A j \in 1..(k - 1) :
              /\ RegExpCompiles(ignoredFiles[j])
              /\ ~matchesGlobPattern(diagnostic.filePath, ignoredFiles[j])

\* filterIgnoredDiagnostics(diagnostics, config) throws
FilterThrows(ds, cfg) ==
    /\ ~(Len(IgnoredRules(cfg)) = 0 /\ Len(IgnoredFiles(cfg)) = 0)
    /\ \E i \in 1..Len(ds) :
          /\ ~isRuleIgnored(ds[i], IgnoredRules(cfg))
          /\ FileIgnoreThrows(ds[i], IgnoredFiles(cfg))

\* what diagnose resolves to, and what scan reports
Failure(message) == [failed |-> TRUE, message |-> message, diagnostics |-> <<>>, score |-> None]
Success(ds, score) == [failed |-> FALSE, message |-> "", diagnostics |-> ds, score |-> Some(score)]

\* diagnose awaits the calculateScore that asks the scoring service, scan
\* calls the local one
ScoreOutcomes(entry, ds) ==
    IF entry = "diagnose" THEN {computeLocalScore(ds)} \cup RemoteBodies
    ELSE {calculateScore(ds)}

\* the projects: a version of vue is found only in a package.json that parses
Projects ==
    {proj \in [vueVersion : {None, Some("3.4.0")},
               configFile : {AbsentFile, MalformedFile} \cup {JsonFile(Some(c)) : c \in UserConfigs},
               packageJson : {AbsentFile, MalformedFile, JsonFile(None),
                              JsonFile(Some(Config_ignore_eval))},
               motion : BOOLEAN] :
        proj.vueVersion # None => proj.packageJson.exists /\ proj.packageJson.parses}

\* entry: the function that is called; diff: includePaths is not empty
Options ==
    [entry : {"diagnose", "scan"}, lint : {None, Some(TRUE), Some(FALSE)},
     deadCode : {None, Some(TRUE), Some(FALSE)}, diff : BOOLEAN]

InitDiagnose ==
    /\ project \in Projects
    /\ options \in Options
    /\ userConfig = None /\ toggles = None
    /\ lintPhase = None /\ deadCodePhase = None /\ ended = None
    /\ ScoreIdle /\ FilterIdle /\ RemoteIdle /\ GlobIdle /\ LintIdle /\ WalkIdle /\ UnitIdle

\* diagnose and scan up to Promise.all: discoverProject, loadConfig, the
\* effective options, the test of the Vue dependency, the start of the phases
Begin ==
    /\ toggles = None
    /\ LET loaded == loadConfig(project.configFile, project.packageJson)
           effectiveLint ==
               NullishOrTrue(options.lint, IF loaded = None THEN None ELSE loaded[1].lint)
           effectiveDeadCode ==
               NullishOrTrue(options.deadCode,
                             IF loaded = None THEN None ELSE loaded[1].deadCode)
       IN  /\ userConfig' = loaded
           /\ toggles' = Some([lint |-> effectiveLint, deadCode |-> effectiveDeadCode])
           /\ IF project.vueVersion = None
              THEN /\ ended' = Some(Failure("No Vue dependency found in package.json"))
                   /\ UNCHANGED <<lintPhase, deadCodePhase>>
              ELSE /\ lintPhase' = Some(IF effectiveLint THEN Pending ELSE NotStarted)
                   /\ deadCodePhase' =
                          Some(IF effectiveDeadCode /\ ~options.diff THEN Pending
                               ELSE NotStarted)
                   /\ UNCHANGED ended
    /\ UNCHANGED <<project, options>>
    /\ UNCHANGED <<pipelineVars, lintVars, walkVars, unitVars>>

\* runEslint resolves
LintResolves(ds) ==
    /\ lintPhase = Some(Pending)
    /\ lintPhase' = Some(Fulfilled(ds))
    /\ UNCHANGED <<project, options, userConfig, toggles, deadCodePhase, ended>>
    /\ UNCHANGED <<pipelineVars, lintVars, walkVars, unitVars>>

\* runEslint rejects: .catch returns []
LintRejects ==
    /\ lintPhase = Some(Pending)
    /\ lintPhase' = Some(Caught)
    /\ UNCHANGED <<project, options, userConfig, toggles, deadCodePhase, ended>>
    /\ UNCHANGED <<pipelineVars, lintVars, walkVars, unitVars>>

\* runKnip resolves
DeadCodeResolves(ds) ==
    /\ deadCodePhase = Some(Pending)
    /\ deadCodePhase' = Some(Fulfilled(ds))
    /\ UNCHANGED <<project, options, userConfig, toggles, lintPhase, ended>>
    /\ UNCHANGED <<pipelineVars, lintVars, walkVars, unitVars>>

\* runKnip rejects: .catch returns []
DeadCodeRejects ==
    /\ deadCodePhase = Some(Pending)
    /\ deadCodePhase' = Some(Caught)
    /\ UNCHANGED <<project, options, userConfig, toggles, lintPhase, ended>>
    /\ UNCHANGED <<pipelineVars, lintVars, walkVars, unitVars>>

\* [...lintDiagnostics, ...deadCodeDiagnostics, ...] of diagnose and of scan
Collected ==
    lintPhase[1].value \o deadCodePhase[1].value
    \o (IF options.entry = "diagnose" /\ ~options.diff THEN checkReducedMotion(project)
        ELSE <<>>)

\* diagnose and scan after Promise.all: the diagnostics are put together,
\* filtered when there is a configuration, and scored
Finish ==
    /\ ended = None
    /\ lintPhase # None /\ deadCodePhase # None
    /\ lintPhase[1].settled /\ deadCodePhase[1].settled
    /\ IF userConfig # None /\ FilterThrows(Collected, userConfig[1])
       THEN ended' = Some(Failure("Invalid regular expression"))
       ELSE LET ds == IF userConfig # None
                      THEN filterIgnoredDiagnostics(Collected, userConfig[1])
                      ELSE Collected
            IN  \E score \in ScoreOutcomes(options.entry, ds) : ended' = Some(Success(ds, score))
    /\ UNCHANGED <<project, options, userConfig, toggles, lintPhase, deadCodePhase>>
    /\ UNCHANGED <<pipelineVars, lintVars, walkVars, unitVars>>

NextDiagnose ==
    \/ Begin
    \/ \E ds \in LintLists : LintResolves(ds)
    \/ LintRejects
    \/ \E ds \in DeadCodeLists : DeadCodeResolves(ds)
    \/ DeadCodeRejects
    \/ Finish

SpecDiagnose == InitDiagnose /\ [][NextDiagnose]_vars

\* ---- what diagnose and scan end with ----

Ended == ended # None
HasVue == project.vueVersion # None
MalformedConfig == project.configFile.exists /\ ~project.configFile.parses

\* C17: diagnose and scan fail exactly when the project has no Vue
\* dependency, and then before a phase has started; a phase that fails
\* contributes an empty list and the diagnostics of the other phase stay.
C17_FatalOnlyWithoutVue ==
    Ended =>
        /\ ended[1].failed <=> ~HasVue
        /\ ended[1].failed => lintPhase = None /\ deadCodePhase = None
        /\ ~ended[1].failed =>
              /\ lintPhase[1].failed => lintPhase[1].value = <<>>
              /\ deadCodePhase[1].failed => deadCodePhase[1].value = <<>>

\* C18: a configuration file that exists but does not parse is no
\* configuration: loadConfig returns null, the toggles are the options or
\* enabled, the run fails only without a Vue dependency, and the
\* diagnostics are returned unfiltered.
C18_MalformedConfigIsNoConfig ==
    MalformedConfig /\ toggles # None =>
        /\ userConfig = None
        /\ toggles[1].lint = (IF options.lint = None THEN TRUE ELSE options.lint[1])
        /\ toggles[1].deadCode = (IF options.deadCode = None THEN TRUE ELSE options.deadCode[1])
        /\ Ended =>
              /\ ended[1].failed <=> ~HasVue
              /\ ~ended[1].failed => ended[1].diagnostics = Collected

\* the configuration file is malformed, package.json holds a configuration
\* that ignores no-eval and disables the lint phase, no option is given:
\* the lint phase has run and its no-eval diagnostic is returned
C18_Witness ==
    /\ MalformedConfig
    /\ project.packageJson = JsonFile(Some(Config_ignore_eval))
    /\ options.lint = None /\ options.deadCode = None
    /\ Ended /\ ~ended[1].failed
    /\ lintPhase[1].started /\ deadCodePhase[1].started
    /\ \E k \in 1..Len(ended[1].diagnostics) : ended[1].diagnostics[k].rule = "no-eval"

\* C19: diagnose with lint: false and deadCode: false returns no diagnostic
\* and the score 100 with the label "Perfect".
C19_AllChecksDisabled ==
    /\ options # None /\ options.entry = "diagnose"
    /\ options.lint = Some(FALSE) /\ options.deadCode = Some(FALSE)
    /\ Ended /\ ~ended[1].failed
    => /\ ended[1].diagnostics = <<>>
       /\ ended[1].score = Some(Perfect)

(***************************************************************************)
(* walkAst: the tree walker of the rules.  A tree is a heap of objects:    *)
(* the nodes 1..n (objects with a type), one location object -i for every  *)
(* node i (an object without type), and the object 0, the parent of the    *)
(* root when the walk starts below the top of a tree.                      *)
(***************************************************************************)
MaxNodes == 4          \* most nodes of a walked tree

\* the values of the fields of an object
Primitive == [kind |-> "primitive", ref |-> 0, items |-> <<>>]
ObjectRef(id) == [kind |-> "object", ref |-> id, items |-> <<>>]
\* an array: its items are objects of the heap, null is written Null
ArrayOf(items) == [kind |-> "array", ref |-> 0, items |-> items]
Null == 0 - MaxNodes - 1

Field(key, value) == [key |-> key, value |-> value]

\* the children of node p that hang in a field of their own, and those
\* that hang in the array body, in the order of their keys
ChildrenVia(n, parentOf, via, p, how) ==
    SelectSeq([i \in 1..n |-> i],
              LAMBDA c : c > 1 /\ parentOf[c] = p /\ via[c] = how)

\* the fields of node p, in the order of Object.keys
NodeFields(n, parentOf, via, below, p) ==
    LET single == ChildrenVia(n, parentOf, via, p, "single")
        inArray == ChildrenVia(n, parentOf, via, p, "array")
    IN  <<Field("type", Primitive), Field("loc", ObjectRef(0 - p))>>
        \o (IF p > 1 THEN <<Field("parent", ObjectRef(parentOf[p]))>>
            ELSE IF below THEN <<Field("parent", ObjectRef(0))>> ELSE <<>>)
        \o [k \in 1..Len(single) |-> Field("child", ObjectRef(single[k]))]
        \o (IF Len(inArray) > 0 THEN <<Field("body", ArrayOf(<<Null>> \o inArray))>>
            ELSE <<>>)

\* the heap of a tree of n nodes: typed tells whether the object has a type
Heap(n, parentOf, via, below) ==
    [id \in (0 - n)..n |->
        IF id >= 1 THEN [typed |-> TRUE, fields |-> NodeFields(n, parentOf, via, below, id)]
        ELSE IF id = 0 THEN [typed |-> TRUE,
                             fields |-> <<Field("type", Primitive), Field("child", ObjectRef(1))>>]
        ELSE [typed |-> FALSE, fields |-> <<Field("line", Primitive)>>]]

\* the trees of at most max nodes: every node but the root hangs below a
\* node of smaller number and refers back to it in its field parent
Trees(max) ==
    UNION {{[root |-> 1, heap |-> Heap(n, parentOf, via, below)] :
               parentOf \in {f \in [1..n -> 0..n] : \A i \in 1..n : f[i] < i},
               via \in [1..n -> {"single", "array"}],
               below \in BOOLEAN} : n \in 1..max}

\* item && typeof item === "object" && item.type
IsTypedObject(heap, id) == id # Null /\ heap[id].typed

RECURSIVE walkAst(_, _)
RECURSIVE WalkFields(_, _, _)
RECURSIVE WalkItems(_, _, _)

\* only the first item of an array is looked at
WalkItems_FirstOnly(heap, items, k) ==
    IF k > 1 \/ k > Len(items) THEN <<>>
    ELSE IF IsTypedObject(heap, items[k]) THEN walkAst(heap, items[k]) ELSE <<>>

\* for (const item of child): the visits from the k-th item on
WalkItems(heap, items, k) ==
    IF k > Len(items) THEN <<>>
    ELSE (IF IsTypedObject(heap, items[k]) THEN walkAst(heap, items[k]) ELSE <<>>)
         \o WalkItems(heap, items, k + 1)

\* for (const key of Object.keys(node)): the visits from the k-th key on
WalkFields(heap, fields, k) ==
    IF k > Len(fields) THEN <<>>
    ELSE LET key == fields[k].key
             child == fields[k].value
         IN  (IF key = "parent" THEN <<>>
              ELSE IF child.kind = "array" THEN WalkItems(heap, child.items, 1)
              ELSE IF child.kind = "object" /\ IsTypedObject(heap, child.ref)
                   THEN walkAst(heap, child.ref)
              ELSE <<>>)
             \o WalkFields(heap, fields, k + 1)

\* walkAst(node, visitor): the objects the visitor is called with, in order
walkAst(heap, id) == <<id>> \o WalkFields(heap, heap[id].fields, 1)

InitWalk ==
    /\ ast \in Trees(MaxNodes)
    /\ visits = None
    /\ ScoreIdle /\ FilterIdle /\ RemoteIdle /\ GlobIdle /\ LintIdle /\ DiagIdle /\ UnitIdle

\* walkAst(root, visitor) is called and returns
WalkAst ==
    /\ visits = None
    /\ visits' = Some(walkAst(ast.heap, ast.root))
    /\ UNCHANGED ast
    /\ UNCHANGED <<pipelineVars, lintVars, diagVars, unitVars>>

NextWalk == WalkAst

SpecWalk == InitWalk /\ [][NextWalk]_vars

\* ---- what walkAst visits ----

\* the nodes an object refers to in a field other than parent
Children(heap, id) ==
    {c \in DOMAIN heap :
        /\ heap[c].typed
        /\ \E k \in 1..Len(heap[id].fields) :
              LET field == heap[id].fields[k]
              IN  /\ field.key # "parent"
                  /\ \/ field.value.kind = "object" /\ field.value.ref = c
                     \/ field.value.kind = "array"
                        /\ \E j \in 1..Len(field.value.items) : field.value.items[j] = c}

\* the nodes reachable from a set of nodes through fields other than parent
RECURSIVE ReachableFrom(_, _)
ReachableFrom(heap, nodes) ==
    LET more == nodes \cup UNION {Children(heap, id) : id \in nodes}
    IN  IF more = nodes THEN nodes ELSE ReachableFrom(heap, more)

Descendants(heap, id) == ReachableFrom(heap, Children(heap, id))

\* the root refers to a parent
RootHasParent ==
    \E k \in 1..Len(ast.heap[ast.root].fields) : ast.heap[ast.root].fields[k].key = "parent"

\* C20: walkAst returns on every tree; the visitor is called exactly once
\* with every node reachable from the root through fields other than
\* parent, the root first and every node before its descendants, and never
\* with a node that is reached through a field parent only.
C20_WalkOnce ==
    /\ visits = None => ENABLED WalkAst
    /\ visits # None =>
          LET v == visits[1]
              reachable == ReachableFrom(ast.heap, {ast.root})
          IN  /\ {v[k] : k \in 1..Len(v)} = reachable
              /\ Len(v) = Cardinality(reachable)
              /\ v[1] = ast.root
              /\ \A k, l \in 1..Len(v) : v[l] \in Descendants(ast.heap, v[k]) => k < l
              /\ \A k \in 1..Len(v) : v[k] # 0

\* a walk that starts below the top of a tree, over four nodes of which
\* some hang in an array, and whose order is not the order of the numbers
C20_Witness ==
    /\ visits # None
    /\ RootHasParent
    /\ Len(visits[1]) = 4
    /\ \E k \in 1..3 : visits[1][k] > visits[1][k + 1]
    /\ \E id \in 1..4 : \E k \in 1..Len(ast.heap[id].fields) :
          /\ ast.heap[id].fields[k].value.kind = "array"
          /\ Len(ast.heap[id].fields[k].value.items) = 3

(***************************************************************************)
(* The rules and the helpers of the plugin, one at a time: argument is     *)
(* what the rule or the helper is applied to, returned what it reports or  *)
(* returns.                                                                *)
(***************************************************************************)
UnitInit(arguments) ==
    /\ ScoreIdle /\ FilterIdle /\ RemoteIdle /\ GlobIdle /\ LintIdle /\ DiagIdle /\ WalkIdle
    /\ returned = None
    /\ traversal = None
    /\ argument \in arguments

\* the rule or the helper is applied and gives result
UnitReturns(result) ==
    /\ returned = None
    /\ returned' = Some(result)
    /\ UNCHANGED <<argument, traversal>>
    /\ UNCHANGED <<pipelineVars, lintVars, diagVars, walkVars>>

\* ---- require-emits-declaration ----
MaxCalls == 4          \* most calls in a file given to require-emits-declaration

\* the callees of the calls of a file: Identifier callees
EmitsCallees == {"emit", "defineEmits", "onMounted"}

\* require-emits-declaration on a file: the lines of its reports
requireEmitsDeclaration(calls) ==
    requireEmitsDeclaration_ProgramExit(
        requireEmitsDeclaration_Visit(requireEmitsDeclaration_create(FreshClosure),
                                      calls, Len(calls)))

InitEmits == UnitInit(SeqsUpTo(EmitsCallees, MaxCalls))

LintEmits == UnitReturns(requireEmitsDeclaration(argument))

NextEmits == LintEmits

SpecEmits == InitEmits /\ [][NextEmits]_vars

\* C21: without defineEmits() in the file there is exactly one report for
\* every emit() call, on the line of the call; with a defineEmits() call
\* anywhere in the file there is none.
C21_EmitsDeclaration ==
    returned # None =>
        LET calls == argument
            reports == returned[1]
            declared == \E i \in 1..Len(calls) : calls[i] = "defineEmits"
        IN  IF declared THEN reports = <<>>
            ELSE /\ \A i \in 1..Len(calls) :
                       Cardinality({k \in 1..Len(reports) : reports[k] = i})
                           = (IF calls[i] = "emit" THEN 1 ELSE 0)
                 /\ \A k \in 1..Len(reports) : reports[k] \in 1..Len(calls)

\* two emit() calls without defineEmits(): two reports
C21_Witness ==
    /\ returned # None
    /\ argument = <<"emit", "onMounted", "emit">>
    /\ Len(returned[1]) = 2

\* ---- the traversal of a file by the linter ----
\* The calls of a file in source order, every call with its nesting depth:
\* a call of depth d + 1 lies inside the nearest call of depth d before it.
RECURSIVE CallTreesOf(_, _)
CallTreesOf(callees, len) ==
    IF len = 0 THEN {<<>>}
    ELSE UNION {{Append(t, [callee |-> c, depth |-> d]) :
                    c \in callees,
                    d \in 1..(IF t = <<>> THEN 1 ELSE t[Len(t)].depth + 1)} :
                t \in CallTreesOf(callees, len - 1)}

CallTrees(callees, most) == UNION {CallTreesOf(callees, len) : len \in 0..most}

\* call j lies inside call i
Inside(tree, i, j) ==
    /\ i < j
    /\ \A m \in (i + 1)..j : tree[m].depth > tree[i].depth

\* the selectors "CallExpression" and "CallExpression:exit" in the order in
\* which the traversal fires them, from call i on, with the calls in open
\* entered and not yet left
RECURSIVE Traverse(_, _, _)
Traverse(tree, i, open) ==
    IF open # <<>> /\ (i > Len(tree) \/ tree[open[Len(open)]].depth >= tree[i].depth)
    THEN <<[at |-> "exit", node |-> open[Len(open)]]>>
             \o Traverse(tree, i, SubSeq(open, 1, Len(open) - 1))
    ELSE IF i > Len(tree) THEN <<>>
    ELSE <<[at |-> "enter", node |-> i]>> \o Traverse(tree, i + 1, Append(open, i))

\* ---- no-ref-in-computed ----
RefCallees == {"computed", "ref", "reactive", "watch"}

noRefInComputed_create == [insideComputed |-> FALSE, reports |-> {}]

\* the listeners of the rule on one event of the traversal; "CallExpression"
\* runs before the more specific "CallExpression[callee.name='computed']"
noRefInComputed_On(closure, tree, event) ==
    LET callee == tree[event.node].callee
    IN  IF event.at = "enter"
        THEN [insideComputed |-> closure.insideComputed \/ callee = "computed",
              reports |-> IF closure.insideComputed /\ callee \in {"ref", "reactive"}
                          THEN closure.reports \cup {event.node}
                          ELSE closure.reports]
        ELSE [closure EXCEPT !.insideComputed = IF callee = "computed" THEN FALSE ELSE @]

RECURSIVE noRefInComputed_Visit(_, _, _)
noRefInComputed_Visit(tree, events, n) ==
    IF n = 0 THEN noRefInComputed_create
    ELSE noRefInComputed_On(noRefInComputed_Visit(tree, events, n - 1), tree, events[n])

\* no-ref-in-computed on a file: the calls it reports
noRefInComputed(tree) ==
    LET events == Traverse(tree, 1, <<>>)
    IN  noRefInComputed_Visit(tree, events, Len(events)).reports

InitRef == UnitInit(CallTrees(RefCallees, MaxCalls))

LintRef == UnitReturns(noRefInComputed(argument))

NextRef == LintRef

SpecRef == InitRef /\ [][NextRef]_vars

\* C22: the reported calls are the ref() and reactive() calls that lie
\* inside a computed() call, at any depth and at any position inside it.
C22_RefInComputed ==
    returned # None =>
        returned[1] = {j \in 1..Len(argument) :
                          /\ argument[j].callee \in {"ref", "reactive"}
                          /\ \E i \in 1..Len(argument) :
                                /\ argument[i].callee = "computed"
                                /\ Inside(argument, i, j)}

\* ---- no-window-in-ssr ----
MaxSsrNodes == 3       \* most nodes in a file given to no-window-in-ssr

SSR_GLOBALS == {"window", "document", "localStorage", "sessionStorage",
                "navigator", "location"}

\* The nodes of a file that the rule looks at, written as their source:
\* identifiers, the call onMounted(...), typeof, a member access .x on its
\* one child, and if statements with their tests.
SsrIdentifiers == {"window", "foo"}
SsrIfStatements == {"if (process.client)", "if (!import.meta.client)", "if (ready)"}
SsrSyntax == SsrIdentifiers \cup SsrIfStatements \cup {"onMounted()", "typeof", ".x"}

\* the nearest node around node j, 0 for a node of the top level
ParentOf(tree, j) ==
    LET around == {i \in 1..(j - 1) : Inside(tree, i, j)}
    IN  IF around = {} THEN 0 ELSE CHOOSE i \in around : \A k \in around : k <= i

\* trees a parser can give: an identifier has nothing below it, typeof and
\* the member access have one expression below them
SsrFollows(t, syntax, d) ==
    LET last == t[Len(t)]
        above == ParentOf(Append(t, [syntax |-> syntax, depth |-> d]), Len(t) + 1)
    IN  /\ last.syntax \in SsrIdentifiers => d <= last.depth
        /\ last.syntax \in {"typeof", ".x"} =>
               d = last.depth + 1 /\ syntax \notin SsrIfStatements
        /\ above # 0 /\ t[above].syntax \in {"typeof", ".x"} => above = Len(t)

RECURSIVE SsrTreesOf(_)
SsrTreesOf(len) ==
    IF len = 0 THEN {<<>>}
    ELSE UNION {{Append(t, [syntax |-> x[1], depth |-> x[2]]) :
                    x \in {y \in SsrSyntax \X (1..(IF t = <<>> THEN 1 ELSE t[Len(t)].depth + 1)) :
                              t # <<>> => SsrFollows(t, y[1], y[2])}} :
                t \in SsrTreesOf(len - 1)}

SsrTrees(most) ==
    {t \in UNION {SsrTreesOf(len) : len \in 0..most} :
        t # <<>> => t[Len(t)].syntax \notin {"typeof", ".x"}}

\* the test of an if statement is the member expression process.client
TestIsProcessClient(syntax) == syntax = "if (process.client)"

\* the test of an if statement is the member expression import.meta.client
TestIsImportMetaClient(syntax) == FALSE

\* the source text of the test includes process.client or import.meta.client
TestSourceIncludesClient(syntax) ==
    syntax \in {"if (process.client)", "if (!import.meta.client)"}

RECURSIVE isWithinClientGuard(_, _)
isWithinClientGuard(tree, startNode) ==
    LET parentNode == ParentOf(tree, startNode)
    IN  IF parentNode = 0 THEN FALSE
        ELSE IF /\ tree[parentNode].syntax \in SsrIfStatements
                /\ \/ TestIsProcessClient(tree[parentNode].syntax)
                   \/ TestIsImportMetaClient(tree[parentNode].syntax)
                   \/ TestSourceIncludesClient(tree[parentNode].syntax)
        THEN TRUE
        ELSE isWithinClientGuard(tree, parentNode)

noWindowInSsr_create == [insideSafeContext |-> 0, reports |-> {}]

\* Identifier(node): does the rule report the node
noWindowInSsr_Identifier(closure, tree, node) ==
    /\ ~(closure.insideSafeContext > 0)
    /\ tree[node].syntax \in SSR_GLOBALS
    /\ ~(ParentOf(tree, node) # 0 /\ tree[ParentOf(tree, node)].syntax = "typeof")
    /\ ~isWithinClientGuard(tree, node)

\* leaving any onMounted() call leaves the safe context
noWindowInSsr_On_Flag(closure, tree, event) ==
    LET syntax == tree[event.node].syntax
    IN  IF event.at = "enter"
        THEN IF syntax = "onMounted()"
             THEN [closure EXCEPT !.insideSafeContext = @ + 1]
             ELSE IF syntax \in SsrIdentifiers /\ noWindowInSsr_Identifier(closure, tree, event.node)
             THEN [closure EXCEPT !.reports = @ \cup {event.node}]
             ELSE closure
        ELSE IF syntax = "onMounted()"
             THEN [closure EXCEPT !.insideSafeContext = 0]
             ELSE closure

\* the listeners of the rule on one event of the traversal
noWindowInSsr_On(closure, tree, event) ==
    LET syntax == tree[event.node].syntax
    IN  IF event.at = "enter"
        THEN IF syntax = "onMounted()"
             THEN [closure EXCEPT !.insideSafeContext = @ + 1]
             ELSE IF syntax \in SsrIdentifiers /\ noWindowInSsr_Identifier(closure, tree, event.node)
             THEN [closure EXCEPT !.reports = @ \cup {event.node}]
             ELSE closure
        ELSE IF syntax = "onMounted()"
             THEN [closure EXCEPT !.insideSafeContext = @ - 1]
             ELSE closure

RECURSIVE noWindowInSsr_Visit(_, _, _)
noWindowInSsr_Visit(tree, events, n) ==
    IF n = 0 THEN noWindowInSsr_create
    ELSE noWindowInSsr_On(noWindowInSsr_Visit(tree, events, n - 1), tree, events[n])

\* no-window-in-ssr on a file: the identifiers it reports
noWindowInSsr(tree) ==
    LET events == Traverse(tree, 1, <<>>)
    IN  noWindowInSsr_Visit(tree, events, Len(events)).reports

InitSsr == UnitInit(SsrTrees(MaxSsrNodes))

LintSsr == UnitReturns(noWindowInSsr(argument))

NextSsr == LintSsr

SpecSsr == InitSsr /\ [][NextSsr]_vars

\* C23: the reported identifiers are those with the name of a browser
\* global that lie inside no onMounted(...) call, are not the operand of
\* typeof and lie inside no if statement whose test mentions process.client
\* or import.meta.client; so a global after an onMounted call that has been
\* left is reported, also after nested onMounted calls.
C23_WindowInSsr ==
    returned # None =>
        returned[1] =
            {j \in 1..Len(argument) :
                /\ argument[j].syntax \in SSR_GLOBALS
                /\ ~\E i \in 1..Len(argument) :
                       argument[i].syntax = "onMounted()" /\ Inside(argument, i, j)
                /\ ~\E i \in 1..Len(argument) :
                       /\ argument[i].syntax = "typeof"
                       /\ ParentOf(argument, j) = i
                /\ ~\E i \in 1..Len(argument) :
                       /\ argument[i].syntax \in
                              {"if (process.client)", "if (!import.meta.client)"}
                       /\ Inside(argument, i, j)}

\* onMounted(() => { onMounted(...) }); window: the identifier after the
\* two nested onMounted calls is reported
C23_Witness ==
    /\ returned # None
    /\ Len(argument) = 3
    /\ argument[1] = [syntax |-> "onMounted()", depth |-> 1]
    /\ argument[2] = [syntax |-> "onMounted()", depth |-> 2]
    /\ argument[3] = [syntax |-> "window", depth |-> 1]
    /\ returned[1] = {3}

\* ---- no-watch-as-computed ----
MaxStatements == 2     \* most statements in the body of a watch callback

\* the syntax trees of the callbacks of watch(state, callback)
IdentifierOf(name) == [type |-> "Identifier", name |-> name]
MemberOf(object, property) ==
    [type |-> "MemberExpression", object |-> IdentifierOf(object),
     property |-> IdentifierOf(property)]
CallOf(callee) == [type |-> "CallExpression", callee |-> callee]
AwaitOf(expression) == [type |-> "AwaitExpression", argument |-> expression]
AssignmentOf(left, right) == [type |-> "AssignmentExpression", left |-> left, right |-> right]
ExpressionStatementOf(expression) ==
    [type |-> "ExpressionStatement", expression |-> expression]
BlockOf(statements) == [type |-> "BlockStatement", body |-> statements]
ArrowFunctionOf(body) == [type |-> "ArrowFunctionExpression", body |-> body]

\* val, transform(val), fetch(val), axios.get(val), await load(val)
WatchOperands ==
    {IdentifierOf("val"), CallOf(IdentifierOf("transform")), CallOf(IdentifierOf("fetch")),
     CallOf(MemberOf("axios", "get")), AwaitOf(CallOf(IdentifierOf("load")))}

\* doubled.value and total
WatchTargets == {MemberOf("doubled", "value"), IdentifierOf("total")}

WatchAssignments(operands) == {AssignmentOf(l, r) : l \in WatchTargets, r \in operands}

WatchExpressions ==
    WatchOperands \cup WatchAssignments(WatchOperands \cup WatchAssignments(WatchOperands))

\* (val) => { statement; ... } and (val) => expression
WatchCallbacks(most) ==
    {ArrowFunctionOf(BlockOf(s)) :
        s \in SeqsUpTo({ExpressionStatementOf(e) : e \in WatchExpressions}, most)}
    \cup {ArrowFunctionOf(e) : e \in WatchExpressions}

getBodyStatements(callback) ==
    IF callback.body.type = "BlockStatement" THEN callback.body.body ELSE <<callback.body>>

\* the nodes walkAst visits from a node on, the node first
RECURSIVE WalkedNodes(_)
RECURSIVE WalkedAll(_, _)
WalkedAll(nodes, n) ==
    IF n = 0 THEN <<>> ELSE WalkedAll(nodes, n - 1) \o WalkedNodes(nodes[n])

WalkedNodes(node) ==
    <<node>> \o
    CASE node.type = "ArrowFunctionExpression" -> WalkedNodes(node.body)
      [] node.type = "BlockStatement" -> WalkedAll(node.body, Len(node.body))
      [] node.type = "ExpressionStatement" -> WalkedNodes(node.expression)
      [] node.type = "AssignmentExpression" -> WalkedNodes(node.left) \o WalkedNodes(node.right)
      [] node.type = "AwaitExpression" -> WalkedNodes(node.argument)
      [] node.type = "CallExpression" -> WalkedNodes(node.callee)
      [] node.type = "MemberExpression" -> WalkedNodes(node.object) \o WalkedNodes(node.property)
      [] node.type = "Identifier" -> <<>>

containsAwait(node) ==
    LET walked == WalkedNodes(node)
    IN  \E k \in 1..Len(walked) : walked[k].type = "AwaitExpression"

FETCH_NAMES == {"fetch", "axios", "got", "ky", "request"}

containsFetchCall(node) ==
    LET walked == WalkedNodes(node)
    IN  \E k \in 1..Len(walked) :
           /\ walked[k].type = "CallExpression"
           /\ \/ /\ walked[k].callee.type = "Identifier"
                 /\ walked[k].callee.name \in FETCH_NAMES
              \/ /\ walked[k].callee.type = "MemberExpression"
                 /\ walked[k].callee.object.name \in FETCH_NAMES

\* an assignment whose left side is a member expression with the property value
IsRefAssignment(child) ==
    /\ child.type = "AssignmentExpression"
    /\ child.left.type = "MemberExpression"
    /\ child.left.property.name = "value"

countRefAssignments(node) ==
    LET walked == WalkedNodes(node)
    IN  Cardinality({k \in 1..Len(walked) : IsRefAssignment(walked[k])})

\* CallExpression(node) of the rule on watch(state, callback): does it report
noWatchAsComputed(callback) ==
    LET statements == getBodyStatements(callback)
        allAreAssignments ==
            \A k \in 1..Len(statements) :
                /\ statements[k].type = "ExpressionStatement"
                /\ statements[k].expression.type = "AssignmentExpression"
        refAssignCount == countRefAssignments(callback)
    IN  /\ Len(statements) # 0
        /\ allAreAssignments
        /\ ~(refAssignCount = 0 \/ refAssignCount # Len(statements))
        /\ ~(containsFetchCall(callback) \/ containsAwait(callback))

InitWatch == UnitInit(WatchCallbacks(MaxStatements))

LintWatch == UnitReturns(noWatchAsComputed(argument))

NextWatch == LintWatch

SpecWatch == InitWatch /\ [][NextWatch]_vars

\* the body of the callback, a block or one expression, as its expressions
WatchBody(callback) ==
    IF callback.body.type = "BlockStatement"
    THEN [k \in 1..Len(callback.body.body) |-> callback.body.body[k].expression]
    ELSE <<callback.body>>

\* C24: the watch() call is reported exactly when the body of its callback
\* is made of assignments to a .value member only and holds no call of
\* fetch, axios, got, ky or request and no await.
C24_WatchAsComputed ==
    returned # None =>
        (returned[1] <=>
            /\ WatchBody(argument) # <<>>
            /\ \A k \in 1..Len(WatchBody(argument)) : IsRefAssignment(WatchBody(argument)[k])
            /\ ~containsFetchCall(argument)
            /\ ~containsAwait(argument))

\* ---- no-prop-mutation ----
MaxItems == 3          \* most declarations and assignments in a file

PropFileNames == {"props", "state"}

\* const <id> = <callee>(...) and <object>.title = ... or <object> = ...,
\* in the order of the source; a function declaration may hold an
\* assignment above the declaration of the variable it assigns to
PropFileItems ==
    {[type |-> "VariableDeclarator", id |-> n, callee |-> c] :
        n \in PropFileNames, c \in {"defineProps", "ref"}}
    \cup {[type |-> "AssignmentExpression", left |-> l, object |-> n] :
             l \in {"MemberExpression", "Identifier"}, n \in PropFileNames}

\* files with one declaration of a name at most and one defineProps() call
\* at most
PropFiles(most) ==
    {f \in SeqsUpTo(PropFileItems, most) :
        /\ \A k, l \in 1..Len(f) :
              (k # l /\ f[k].type = "VariableDeclarator" /\ f[l].type = "VariableDeclarator")
                  => (f[k].id # f[l].id /\ f[k].callee # f[l].callee)}

noPropMutation_create == [propsVariableName |-> None, reports |-> {}]

noPropMutation_VariableDeclarator(closure, node) ==
    IF node.callee # "defineProps" THEN closure
    ELSE [closure EXCEPT !.propsVariableName = Some(node.id)]

noPropMutation_AssignmentExpression(closure, node, k) ==
    IF node.left # "MemberExpression" THEN closure
    ELSE IF Some(node.object) = closure.propsVariableName /\ closure.propsVariableName # None
    THEN [closure EXCEPT !.reports = @ \cup {k}]
    ELSE closure

RECURSIVE noPropMutation_Visit(_, _)
noPropMutation_Visit(file, n) ==
    IF n = 0 THEN noPropMutation_create
    ELSE IF file[n].type = "VariableDeclarator"
    THEN noPropMutation_VariableDeclarator(noPropMutation_Visit(file, n - 1), file[n])
    ELSE noPropMutation_AssignmentExpression(noPropMutation_Visit(file, n - 1), file[n], n)

\* no-prop-mutation on a file: the assignments it reports
noPropMutation(file) == noPropMutation_Visit(file, Len(file)).reports

InitProp == UnitInit(PropFiles(MaxItems))

LintProp == UnitReturns(noPropMutation(argument))

NextProp == LintProp

SpecProp == InitProp /\ [][NextProp]_vars

\* C25: the reported assignments are the assignments of the file to a
\* member of the variable that is bound from the defineProps() call.
C25_PropMutation ==
    returned # None =>
        returned[1] =
            {k \in 1..Len(argument) :
                /\ argument[k].type = "AssignmentExpression"
                /\ argument[k].left = "MemberExpression"
                /\ \E d \in 1..Len(argument) :
                      /\ argument[d].type = "VariableDeclarator"
                      /\ argument[d].callee = "defineProps"
                      /\ argument[d].id = argument[k].object}

\* ---- no-giant-component ----
MaxLineBreaks == 302   \* most line breaks in a file given to no-giant-component

GIANT_COMPONENT_LINE_THRESHOLD == 300

\* a source text: its line breaks, and whether text follows the last one
SourceTexts(most) == [lineBreaks : 0..most, endsInText : BOOLEAN]

\* context.getSourceCode().lines.length: the text split at its line
\* breaks, the part after the last line break included when it is empty
SourceCode_lines_length(text) == text.lineBreaks + 1

\* the rule reports on the line count itself
noGiantComponent_AtThreshold(text) ==
    IF SourceCode_lines_length(text) >= GIANT_COMPONENT_LINE_THRESHOLD
    THEN <<"splitComponent">> ELSE <<>>

\* Program(node) of the rule: its reports
noGiantComponent(text) ==
    IF SourceCode_lines_length(text) > GIANT_COMPONENT_LINE_THRESHOLD
    THEN <<"splitComponent">> ELSE <<>>

InitGiant == UnitInit(SourceTexts(MaxLineBreaks))

LintGiant == UnitReturns(noGiantComponent(argument))

NextGiant == LintGiant

SpecGiant == InitGiant /\ [][NextGiant]_vars

\* C26: a file is reported, with one diagnostic, when it has more than 300
\* lines, and not at all otherwise: not with 300 lines, once with 301.
C26_GiantComponent ==
    returned # None =>
        LET lineCount == argument.lineBreaks + 1
        IN  /\ lineCount > 300 => returned[1] = <<"splitComponent">>
            /\ lineCount <= 300 => returned[1] = <<>>
            /\ lineCount = 300 => Len(returned[1]) = 0
            /\ lineCount = 301 => Len(returned[1]) = 1

\* a file of 300 lines is linted without a report
C26_Witness ==
    /\ returned # None
    /\ argument.lineBreaks = 299
    /\ argument.endsInText
    /\ returned[1] = <<>>

\* ---- the report ----
MaxReported == 4        \* most diagnostics in a printed report

ReportedRules == {"no-eval", "no-v-html", "no-prop-mutation", "no-giant-component"}

\* RULE_CATEGORY_MAP of the printed rules
resolveCategory(rule) ==
    IF rule \in {"no-eval", "no-v-html"} THEN "Security" ELSE "Architecture"

\* the diagnostics of runEslint for the printed rules
ReportedDiagnostics ==
    {[plugin |-> "vue-doctor", rule |-> rule, severity |-> getRuleSeverity(rule),
      category |-> resolveCategory(rule)] : rule \in ReportedRules}

\* groupBy(items, key), keys[n] being key(items[n]): the entries of the
\* map, a key at its first item
RECURSIVE groupBy(_, _, _)
groupBy(items, keys, n) ==
    IF n = 0 THEN <<>>
    ELSE LET groups == groupBy(items, keys, n - 1)
             at == {g \in 1..Len(groups) : groups[g][1] = keys[n]}
         IN  IF at = {}
             THEN Append(groups, <<keys[n], <<items[n]>>>>)
             ELSE [g \in 1..Len(groups) |->
                      IF g \in at THEN <<groups[g][1], Append(groups[g][2], items[n])>>
                      ELSE groups[g]]

\* entries.toSorted((a, b) => rank(a) - rank(b)), ranks[n] being the rank
\* 0 or 1 of entries[n]: stable
toSorted(entries, ranks) ==
    LET indices == [n \in 1..Len(entries) |-> n]
        order == SelectSeq(indices, LAMBDA n : ranks[n] = 0)
                     \o SelectSeq(indices, LAMBDA n : ranks[n] = 1)
    IN  [k \in 1..Len(order) |-> entries[order[k]]]

SEVERITY_ORDER(severity) == IF severity = "error" THEN 0 ELSE 1

\* the groups are left in the order of the map
sortBySeverity_Unsorted(diagnosticGroups) == diagnosticGroups

sortBySeverity(diagnosticGroups) ==
    toSorted(diagnosticGroups,
             [g \in 1..Len(diagnosticGroups) |->
                 SEVERITY_ORDER(diagnosticGroups[g][2][1].severity)])

SomeError(ds) == \E k \in 1..Len(ds) : ds[k].severity = "error"

\* the categories are left in the order of the map
printDiagnostics_SortedCategories_Unsorted(categoryGroups) == categoryGroups

printDiagnostics_SortedCategories(categoryGroups) ==
    toSorted(categoryGroups,
             [g \in 1..Len(categoryGroups) |->
                 IF SomeError(categoryGroups[g][2]) THEN 0 ELSE 1])

\* printDiagnostics: the categories in the order of their headings, every
\* category with its rule groups in the order of their lines
printDiagnostics(ds) ==
    LET sortedCategories ==
            printDiagnostics_SortedCategories(
                groupBy(ds, [n \in 1..Len(ds) |-> ds[n].category], Len(ds)))
    IN  [c \in 1..Len(sortedCategories) |->
            LET categoryDiagnostics == sortedCategories[c][2]
            IN  [category |-> sortedCategories[c][1],
                 ruleGroups |->
                     sortBySeverity(
                         groupBy(categoryDiagnostics,
                                 [n \in 1..Len(categoryDiagnostics) |->
                                     <<categoryDiagnostics[n].plugin,
                                       categoryDiagnostics[n].rule>>],
                                 Len(categoryDiagnostics)))]]

InitReport == UnitInit(SeqsUpTo(ReportedDiagnostics, MaxReported))

WriteReport == UnitReturns(printDiagnostics(argument))

NextReport == WriteReport

SpecReport == InitReport /\ [][NextReport]_vars

\* the diagnostics of a printed category
CategoryDiagnostics(printed) ==
    SelectSeq(argument, LAMBDA d : d.category = printed.category)

\* C27: in the report no category without an error stands before a
\* category with an error, and within a category no rule group without an
\* error stands before a rule group with an error.
C27_ErrorsFirst ==
    returned # None =>
        LET report == returned[1]
        IN  /\ \A c1, c2 \in 1..Len(report) :
                  (c1 < c2 /\ SomeError(CategoryDiagnostics(report[c2])))
                      => SomeError(CategoryDiagnostics(report[c1]))
            /\ \A c \in 1..Len(report) :
                  \A g1, g2 \in 1..Len(report[c].ruleGroups) :
                      (g1 < g2 /\ SomeError(report[c].ruleGroups[g2][2]))
                          => SomeError(report[c].ruleGroups[g1][2])

\* a report of two categories, each of two rule groups, whose diagnostics
\* came warnings first
C27_Witness ==
    /\ returned # None
    /\ Len(argument) = 4
    /\ argument[1].rule = "no-giant-component"
    /\ argument[2].rule = "no-v-html"
    /\ argument[3].rule = "no-eval"
    /\ argument[4].rule = "no-prop-mutation"
    /\ Len(returned[1]) = 2
    /\ returned[1][1].category = "Architecture"
    /\ returned[1][1].ruleGroups[1][1] = <<"vue-doctor", "no-prop-mutation">>
    /\ returned[1][2].ruleGroups[1][1] = <<"vue-doctor", "no-eval">>

\* ---- countChainedArrayMethods ----
MaxLinks == 4          \* most links in a chain given to countChainedArrayMethods

EXPENSIVE_ARRAY_METHODS == {"filter", "map", "reduce", "find", "findIndex", "sort", "flatMap"}

\* The links of a chain from the outermost inward: the method calls
\* .filter(...), .map(...), .slice(...) and the member access .length; the
\* chain ends in the identifier items or in the call getItems().
ChainLinks == {"filter", "map", "slice", "length"}
ChainEnds == {IdentifierOf("items"), CallOf(IdentifierOf("getItems"))}
ChainMethodSets == {EXPENSIVE_ARRAY_METHODS, {"map"}}

MemberExpressionOf(object, property) ==
    [type |-> "MemberExpression", object |-> object, property |-> IdentifierOf(property)]

\* the syntax tree of the chain whose links from link i on are given
RECURSIVE ChainExpression(_, _, _)
ChainExpression(links, end, i) ==
    IF i > Len(links) THEN end
    ELSE IF links[i] = "length"
    THEN MemberExpressionOf(ChainExpression(links, end, i + 1), links[i])
    ELSE CallOf(MemberExpressionOf(ChainExpression(links, end, i + 1), links[i]))

\* the loop ends at a call of a method that is not in the set
RECURSIVE countChainedArrayMethods_StopAtOther(_, _, _)
countChainedArrayMethods_StopAtOther(current, methods, count) ==
    IF current.type = "CallExpression" /\ current.callee.type = "MemberExpression"
    THEN IF current.callee.property.name \in methods
         THEN countChainedArrayMethods_StopAtOther(current.callee.object, methods, count + 1)
         ELSE count
    ELSE count

\* the while loop of countChainedArrayMethods from current on
RECURSIVE countChainedArrayMethods_While(_, _, _)
countChainedArrayMethods_While(current, methods, count) ==
    IF current.type = "CallExpression" /\ current.callee.type = "MemberExpression"
    THEN countChainedArrayMethods_While(
             current.callee.object, methods,
             IF current.callee.property.name \in methods THEN count + 1 ELSE count)
    ELSE count

countChainedArrayMethods(node, methods) == countChainedArrayMethods_While(node, methods, 0)

InitChain ==
    UnitInit([links : SeqsUpTo(ChainLinks, MaxLinks), end : ChainEnds,
              methods : ChainMethodSets])

CountChain ==
    UnitReturns(countChainedArrayMethods(
                    ChainExpression(argument.links, argument.end, 1), argument.methods))

NextChain == CountChain

SpecChain == InitChain /\ [][NextChain]_vars

\* the first link of the chain among stops, the end of the chain without one
FirstLink(stops) ==
    IF stops = {} THEN Len(argument.links) + 1
    ELSE CHOOSE i \in stops : \A j \in stops : i <= j

\* C28 as stated: the result is the number of calls before the first link
\* that is not a call or whose method name is not in the set.
C28_StopsAtFirstOther ==
    returned # None =>
        returned[1] =
            FirstLink({i \in 1..Len(argument.links) :
                          argument.links[i] = "length"
                              \/ argument.links[i] \notin argument.methods}) - 1

\* C28, amended: the result is the number of calls with a method name of
\* the set before the first link that is not a call; calls with another
\* method name are passed over and the walk goes on.
C28_CountsMatchingCalls ==
    returned # None =>
        LET stop == FirstLink({i \in 1..Len(argument.links) : argument.links[i] = "length"})
        IN  returned[1] =
                Cardinality({i \in 1..(stop - 1) : argument.links[i] \in argument.methods})

\* items.filter(...).slice(...).map(...): two calls are counted
C28_Witness ==
    /\ returned # None
    /\ argument.links = <<"map", "slice", "filter">>
    /\ argument.methods = EXPENSIVE_ARRAY_METHODS
    /\ returned[1] = 2

\* ---- isSimpleExpression ----
MaxExpressionNodes == 4    \* most nodes in an expression given to isSimpleExpression

ExpressionLeaves ==
    {[type |-> "Identifier"], [type |-> "Literal"], [type |-> "TemplateLiteral"]}

\* the expressions of n nodes: a + b, !a, a.b and a[b], a ? b : c, a(), a = b
RECURSIVE ExpressionsOf(_)
ExpressionsOf(n) ==
    IF n = 1 THEN ExpressionLeaves
    ELSE {[type |-> "UnaryExpression", argument |-> e] : e \in ExpressionsOf(n - 1)}
         \cup {[type |-> "MemberExpression", object |-> e, computed |-> c] :
                  e \in ExpressionsOf(n - 1), c \in BOOLEAN}
         \cup {[type |-> "CallExpression", callee |-> e] : e \in ExpressionsOf(n - 1)}
         \cup UNION {{[type |-> t, left |-> l, right |-> r] :
                         t \in {"BinaryExpression", "AssignmentExpression"},
                         l \in ExpressionsOf(a), r \in ExpressionsOf(n - 1 - a)} :
                     a \in 1..(n - 2)}
         \cup UNION {UNION {{[type |-> "ConditionalExpression", test |-> t,
                              consequent |-> c, alternate |-> e] :
                                t \in ExpressionsOf(a), c \in ExpressionsOf(b),
                                e \in ExpressionsOf(n - 1 - a - b)} :
                            b \in 1..(n - 2 - a)} :
                     a \in 1..(n - 3)}

Expressions(most) == UNION {ExpressionsOf(n) : n \in 1..most}

RECURSIVE isSimpleExpression(_)
isSimpleExpression(node) ==
    CASE node.type \in {"Identifier", "Literal", "TemplateLiteral"} -> TRUE
      [] node.type = "BinaryExpression" ->
             isSimpleExpression(node.left) /\ isSimpleExpression(node.right)
      [] node.type = "UnaryExpression" -> isSimpleExpression(node.argument)
      [] node.type = "MemberExpression" -> ~node.computed
      [] node.type = "ConditionalExpression" ->
             /\ isSimpleExpression(node.test)
             /\ isSimpleExpression(node.consequent)
             /\ isSimpleExpression(node.alternate)
      [] OTHER -> FALSE

InitSimple == UnitInit(Expressions(MaxExpressionNodes))

TestSimple == UnitReturns(isSimpleExpression(argument))

NextSimple == TestSimple

SpecSimple == InitSimple /\ [][NextSimple]_vars

\* an expression built from identifiers, literals, template strings and
\* binary, unary, member and conditional expressions only
RECURSIVE BuiltFromSimple(_)
BuiltFromSimple(e) ==
    CASE e.type \in {"Identifier", "Literal", "TemplateLiteral"} -> TRUE
      [] e.type = "BinaryExpression" -> BuiltFromSimple(e.left) /\ BuiltFromSimple(e.right)
      [] e.type = "UnaryExpression" -> BuiltFromSimple(e.argument)
      [] e.type = "MemberExpression" -> BuiltFromSimple(e.object)
      [] e.type = "ConditionalExpression" ->
             BuiltFromSimple(e.test) /\ BuiltFromSimple(e.consequent)
                 /\ BuiltFromSimple(e.alternate)
      [] e.type \in {"CallExpression", "AssignmentExpression"} -> FALSE

\* C29: isSimpleExpression(e) is true exactly for the expressions built from
\* identifiers, literals, template strings and binary, unary, member and
\* conditional expressions only; it is false for an expression that holds
\* a call or an assignment.
C29_SimpleExpression ==
    returned # None => (returned[1] <=> BuiltFromSimple(argument))

\* ---- no-template-method-call ----
MaxTemplateNodes == 4  \* most nodes in a template given to no-template-method-call

\* The nodes of a template that the rule looks at, written as their source:
\* elements with and without v-for, and, in the expressions of an element,
\* calls with and without arguments.
TemplateElements == {"<li v-for>", "<div>"}
TemplateCalls == {"format(item)", "now()"}
TemplateSyntax == TemplateElements \cup TemplateCalls

\* a template starts with an element, and an element lies in an element
TemplateFollows(t, syntax, d) ==
    LET above == ParentOf(Append(t, [syntax |-> syntax, depth |-> d]), Len(t) + 1)
    IN  /\ above = 0 => syntax \in TemplateElements
        /\ (above # 0 /\ syntax \in TemplateElements) => t[above].syntax \in TemplateElements

RECURSIVE TemplatesOf(_)
TemplatesOf(len) ==
    IF len = 0 THEN {<<>>}
    ELSE UNION {{Append(t, [syntax |-> x[1], depth |-> x[2]]) :
                    x \in {y \in TemplateSyntax \X (1..(IF t = <<>> THEN 1 ELSE t[Len(t)].depth + 1)) :
                              TemplateFollows(t, y[1], y[2])}} :
                t \in TemplatesOf(len - 1)}

Templates(most) == UNION {TemplatesOf(len) : len \in 0..most}

\* attrs.some(...): the element has a v-for directive
hasVFor(node) == node.syntax = "<li v-for>"

noTemplateMethodCall_VElement(vForDepth, node) ==
    IF hasVFor(node) THEN vForDepth + 1 ELSE vForDepth

\* the counter goes down at the end of every element
noTemplateMethodCall_VElementExit_Every(vForDepth, node) == vForDepth - 1

noTemplateMethodCall_VElementExit(vForDepth, node) ==
    IF hasVFor(node) THEN vForDepth - 1 ELSE vForDepth

\* "VExpressionContainer CallExpression"(node): does the rule report the call
noTemplateMethodCall_CallExpression(vForDepth, node) ==
    /\ vForDepth # 0
    /\ node.syntax = "format(item)"

InitTemplate ==
    /\ ScoreIdle /\ FilterIdle /\ RemoteIdle /\ GlobIdle /\ LintIdle /\ DiagIdle /\ WalkIdle
    /\ returned = None
    /\ traversal = Some([step |-> 0, vForDepth |-> 0, reports |-> {}])
    /\ argument \in Templates(MaxTemplateNodes)

\* the event the traversal of the template fires next
NextEvent == Traverse(argument, 1, <<>>)[traversal[1].step + 1]

TraversalGoesOn ==
    /\ traversal # None
    /\ returned = None
    /\ traversal[1].step < 2 * Len(argument)

TraversalStep(vForDepth, reports) ==
    /\ traversal' = Some([step |-> traversal[1].step + 1, vForDepth |-> vForDepth,
                          reports |-> reports])
    /\ UNCHANGED <<argument, returned>>
    /\ UNCHANGED <<pipelineVars, lintVars, diagVars, walkVars>>

VElementEnter ==
    /\ TraversalGoesOn
    /\ NextEvent.at = "enter"
    /\ argument[NextEvent.node].syntax \in TemplateElements
    /\ TraversalStep(noTemplateMethodCall_VElement(traversal[1].vForDepth,
                                                   argument[NextEvent.node]),
                     traversal[1].reports)

VElementExit ==
    /\ TraversalGoesOn
    /\ NextEvent.at = "exit"
    /\ argument[NextEvent.node].syntax \in TemplateElements
    /\ TraversalStep(noTemplateMethodCall_VElementExit(traversal[1].vForDepth,
                                                       argument[NextEvent.node]),
                     traversal[1].reports)

CallExpressionEnter ==
    /\ TraversalGoesOn
    /\ NextEvent.at = "enter"
    /\ argument[NextEvent.node].syntax \in TemplateCalls
    /\ TraversalStep(traversal[1].vForDepth,
                     IF noTemplateMethodCall_CallExpression(traversal[1].vForDepth,
                                                            argument[NextEvent.node])
                     THEN traversal[1].reports \cup {NextEvent.node}
                     ELSE traversal[1].reports)

\* the traversal leaves a call: the rule has no listener for it
CallExpressionExit ==
    /\ TraversalGoesOn
    /\ NextEvent.at = "exit"
    /\ argument[NextEvent.node].syntax \in TemplateCalls
    /\ TraversalStep(traversal[1].vForDepth, traversal[1].reports)

\* the template has been traversed: the reports of the rule
TemplateTraversed ==
    /\ traversal # None
    /\ returned = None
    /\ traversal[1].step = 2 * Len(argument)
    /\ returned' = Some(traversal[1].reports)
    /\ UNCHANGED <<argument, traversal>>
    /\ UNCHANGED <<pipelineVars, lintVars, diagVars, walkVars>>

NextTemplate ==
    \/ VElementEnter
    \/ VElementExit
    \/ CallExpressionEnter
    \/ CallExpressionExit
    \/ TemplateTraversed

SpecTemplate == InitTemplate /\ [][NextTemplate]_vars

\* the v-for elements that are open after the events fired so far
OpenVForElements ==
    LET events == Traverse(argument, 1, <<>>)
        fired == {k \in 1..Len(events) : k <= traversal[1].step}
    IN  {i \in 1..Len(argument) :
            /\ hasVFor(argument[i])
            /\ \E k \in fired : events[k] = [at |-> "enter", node |-> i]
            /\ ~\E k \in fired : events[k] = [at |-> "exit", node |-> i]}

\* C30: at every step of the traversal of a template the v-for depth
\* counter is the number of open elements with a v-for directive; it is
\* never negative, it is 0 when the template has been traversed, and every
\* reported call lies inside an element with a v-for directive.
C30_VForDepth ==
    traversal # None =>
        /\ traversal[1].vForDepth = Cardinality(OpenVForElements)
        /\ traversal[1].vForDepth >= 0
        /\ traversal[1].step = 2 * Len(argument) => traversal[1].vForDepth = 0
        /\ \A j \in traversal[1].reports :
              \E i \in 1..Len(argument) : hasVFor(argument[i]) /\ Inside(argument, i, j)

\* inside two nested v-for elements, after a v-for element before them has
\* been left, a call has been reported
C30_Witness ==
    /\ traversal # None
    /\ traversal[1].vForDepth = 2
    /\ traversal[1].reports # {}
    /\ argument[1].syntax = "<li v-for>"
    /\ argument[1].depth = 1
    /\ argument[2].depth = 1

====
